---- MODULE Spec2Model ----
(***************************************************************************)
(* A model of the Control4 amplifier integration                           *)
(* (custom_components/control4_amplifier): the UDP command transport of    *)
(* the coordinator, its command-level operations, the per-zone state       *)
(* manager and the zone media player's power / source / volume / mute      *)
(* operations, run as asyncio tasks on one event loop.                     *)
(*                                                                         *)
(* Volumes are Python floats in [0,1]; the model holds them in             *)
(* thousandths (300 is 0.3).  Python's None is the integer None below.     *)
(***************************************************************************)
EXTENDS Integers, Sequences, FiniteSets, TLC

(***************************************************************************)
(* Program constants                                                       *)
(***************************************************************************)
NUM_OUTPUTS == 4
GAIN_MIN == -6
GAIN_MAX == 0
BALANCE_MIN == -10
BALANCE_MAX == 10
TONE_MIN == -12
TONE_MAX == 12
\* const.py of the package is not among the sources; the sentinel is a
\* distinguished value outside 1..6.
NO_INPUT_SOURCE == 0
\* Python's None, for Optional[int] and Optional[float] fields.
None == -1
\* The volume async_turn_on and async_mute_volume fall back to (0.3).
DefaultVolume == 300

CMD_OUTPUT == "c4.amp.out"
CMD_DIGITAL == "c4.amp.digital"
CMD_VOLUME == "c4.amp.chvol"
CMD_BALANCE == "c4.amp.balance"
CMD_INPUT_GAIN == "c4.amp.ingain"
CMD_BASS == "c4.amp.bass"
CMD_TREBLE == "c4.amp.treble"

(***************************************************************************)
(* Bounds of the model                                                     *)
(***************************************************************************)
\* Concurrent asyncio tasks (operations in flight at once).
NumTasks == 2
\* Arguments of the command-level operations range this far beyond the
\* valid domains.
Slack == 1

\* async_start and async_stop are called while fewer than this many datagram
\* endpoints have been created.
MaxEndpoints == 2
\* Datagrams that arrive from the amplifier.
MaxDatagrams == 1
\* Operations concurrent callers invoke on a zone.
MaxCalls == 4

Tasks == 1..NumTasks
\* The configured outputs that have a zone media player.
Zones == {1}

(***************************************************************************)
(* WireCodec: Python's formatting of command arguments, as sequences of    *)
(* characters.                                                             *)
(***************************************************************************)
HexDigits == <<"0","1","2","3","4","5","6","7","8","9","a","b","c","d","e","f">>

RECURSIVE Digits(_, _)
\* The digits of n >= 0 in the given base, most significant first.
Digits(n, base) ==
    IF n < base THEN <<HexDigits[n + 1]>>
    ELSE Append(Digits(n \div base, base), HexDigits[(n % base) + 1])

\* str(n)
Str(n) == IF n < 0 THEN <<"-">> \o Digits(0 - n, 10) ELSE Digits(n, 10)

\* f"{n:02d}": zero-padded to width two, the sign counting in the width.
Fmt02d(n) ==
    IF n < 0 THEN <<"-">> \o Digits(0 - n, 10)
    ELSE IF n < 10 THEN <<"0">> \o Digits(n, 10)
    ELSE Digits(n, 10)

\* hex(n)[2:] for n >= 0
Hex(n) == Digits(n, 16)

\* The volumes v (in thousandths) in 0..1000 for which the IEEE-754 double
\* product float(v) * 100 falls just below the exact value v / 10, so that
\* int() truncates it to one less (0.29 * 100 = 28.999999999999996).
FloatProductLow == {290, 570, 580}

\* The conversion with every product taken to fall below the exact value
\* (fault variant).
VolumeValueLow(v) == (v \div 10) - 1 + 160

\* int(float(volume) * 100) + 160
VolumeValue(v) ==
    (IF v \in FloatProductLow THEN (v \div 10) - 1 ELSE v \div 10) + 160

Cmd(verb, a1, a2) == [verb |-> verb, a1 |-> a1, a2 |-> a2]

(***************************************************************************)
(* InputTopology                                                           *)
(***************************************************************************)
\* _input_map with the second digital input on port 2 (fault variant).
InputMapDigitalTwo ==
    [i \in 1..6 |->
        CASE i = 1 -> [kind |-> "analog", port |-> 1]
          [] i = 2 -> [kind |-> "analog", port |-> 2]
          [] i = 3 -> [kind |-> "analog", port |-> 3]
          [] i = 4 -> [kind |-> "analog", port |-> 4]
          [] i = 5 -> [kind |-> "digital", port |-> 1]
          [] i = 6 -> [kind |-> "digital", port |-> 2]]

\* Control4AmpCoordinator._input_map: logical input -> (kind, physical port)
InputMap ==
    [i \in 1..6 |->
        CASE i = 1 -> [kind |-> "analog", port |-> 1]
          [] i = 2 -> [kind |-> "analog", port |-> 2]
          [] i = 3 -> [kind |-> "analog", port |-> 3]
          [] i = 4 -> [kind |-> "analog", port |-> 4]
          [] i = 5 -> [kind |-> "digital", port |-> 1]
          [] i = 6 -> [kind |-> "digital", port |-> 3]]

(***************************************************************************)
(* AmplifierClient: the commands each coordinator operation sends, in      *)
(* order (the empty sequence when validation rejects the call).            *)
(***************************************************************************)
\* async_select_input with its two sends in the other order (fault variant).
SelectInputCmdsSwapped(channel, input_number) ==
    IF input_number = NO_INPUT_SOURCE
    THEN <<Cmd(CMD_OUTPUT, Fmt02d(channel), <<"0", "0">>)>>
    ELSE IF input_number \notin DOMAIN InputMap
    THEN <<>>
    ELSE LET physical_number == InputMap[input_number].port
             is_digital == IF InputMap[input_number].kind = "digital" THEN 1 ELSE 0
         IN  << Cmd(CMD_DIGITAL, Fmt02d(physical_number), Fmt02d(is_digital)),
                Cmd(CMD_OUTPUT, Fmt02d(channel), Fmt02d(physical_number)) >>

SelectInputCmds(channel, input_number) ==
    IF input_number = NO_INPUT_SOURCE
    THEN <<Cmd(CMD_OUTPUT, Fmt02d(channel), <<"0", "0">>)>>
    ELSE IF input_number \notin DOMAIN InputMap
    THEN <<>>
    ELSE LET physical_number == InputMap[input_number].port
             is_digital == IF InputMap[input_number].kind = "digital" THEN 1 ELSE 0
         IN  << Cmd(CMD_OUTPUT, Fmt02d(channel), Fmt02d(physical_number)),
                Cmd(CMD_DIGITAL, Fmt02d(physical_number), Fmt02d(is_digital)) >>

SetVolumeCmds(output, volume) ==
    IF ~(1 <= output /\ output <= NUM_OUTPUTS) THEN <<>>
    ELSE <<Cmd(CMD_VOLUME, Fmt02d(output), Hex(VolumeValue(volume)))>>

SetBalanceCmds(output, balance) ==
    IF ~(1 <= output /\ output <= NUM_OUTPUTS) THEN <<>>
    ELSE IF ~(BALANCE_MIN <= balance /\ balance <= BALANCE_MAX) THEN <<>>
    ELSE <<Cmd(CMD_BALANCE, Fmt02d(output), Fmt02d(balance))>>

\* async_set_input_gain without the check of the digital port (fault
\* variant).
SetInputGainCmdsAnyPort(input_num, gain, is_digital) ==
    IF ~(GAIN_MIN <= gain /\ gain <= GAIN_MAX) THEN <<>>
    ELSE LET cmd_suffix == IF is_digital THEN <<"d">> \o Str(input_num)
                           ELSE Str(input_num)
         IN  <<Cmd(CMD_INPUT_GAIN, cmd_suffix, Fmt02d(gain))>>

SetInputGainCmds(input_num, gain, is_digital) ==
    IF is_digital /\ input_num \notin {1, 3} THEN <<>>
    ELSE IF ~(GAIN_MIN <= gain /\ gain <= GAIN_MAX) THEN <<>>
    ELSE LET cmd_suffix == IF is_digital THEN <<"d">> \o Str(input_num)
                           ELSE Str(input_num)
         IN  <<Cmd(CMD_INPUT_GAIN, cmd_suffix, Fmt02d(gain))>>

\* async_set_bass with an exclusive upper limit (fault variant).
SetBassCmdsExclusive(output, level) ==
    IF ~(1 <= output /\ output <= NUM_OUTPUTS) THEN <<>>
    ELSE IF ~(-12 <= level /\ level < 12) THEN <<>>
    ELSE <<Cmd(CMD_BASS, Fmt02d(output), Fmt02d(level))>>

SetBassCmds(output, level) ==
    IF ~(1 <= output /\ output <= NUM_OUTPUTS) THEN <<>>
    ELSE IF ~(-12 <= level /\ level <= 12) THEN <<>>
    ELSE <<Cmd(CMD_BASS, Fmt02d(output), Fmt02d(level))>>

SetTrebleCmds(output, level) ==
    IF ~(1 <= output /\ output <= NUM_OUTPUTS) THEN <<>>
    ELSE IF ~(-12 <= level /\ level <= 12) THEN <<>>
    ELSE <<Cmd(CMD_TREBLE, Fmt02d(output), Fmt02d(level))>>

(***************************************************************************)
(* ZoneStateManager: Control4ZoneState and Control4StateManager.  A state  *)
(* manager is the pair [cur, prev]; prev is <<>> (None) or <<snapshot>>.   *)
(***************************************************************************)
\* Control4ZoneState()
DefaultZoneState ==
    [volume |-> 0, input_source |-> None, is_muted |-> FALSE,
     pre_mute_volume |-> None, power_state |-> "off"]

\* Control4StateManager.__init__
NewManager == [cur |-> DefaultZoneState, prev |-> <<>>]

is_on(s) == s.power_state = "on"

store_mute_state(s) ==
    IF ~s.is_muted THEN [s EXCEPT !.pre_mute_volume = s.volume] ELSE s

restore_mute_state(s) ==
    IF s.pre_mute_volume # None THEN [s EXCEPT !.volume = s.pre_mute_volume] ELSE s

\* store_state with a copy() that leaves the volume at its default (fault
\* variant).
store_state_no_volume(m) == [m EXCEPT !.prev = <<[m.cur EXCEPT !.volume = 0]>>]

\* store_state with a copy() that leaves is_muted at its default (fault
\* variant).
store_state_no_mute(m) == [m EXCEPT !.prev = <<[m.cur EXCEPT !.is_muted = FALSE]>>]

\* store_state: previous becomes a copy of current
store_state(m) == [m EXCEPT !.prev = <<m.cur>>]

\* set_power that takes no snapshot when it powers off (fault variant).
set_power_no_snapshot(m, on) ==
    IF on /\ ~is_on(m.cur)
    THEN [store_state(m) EXCEPT !.cur.power_state = "on"]
    ELSE IF ~on /\ is_on(m.cur)
    THEN [m EXCEPT !.cur.power_state = "off"]
    ELSE m

\* set_power that takes a snapshot on every call (fault variant).
set_power_always_snapshot(m, on) ==
    [store_state(m) EXCEPT !.cur.power_state = IF on THEN "on" ELSE "off"]

\* set_power that takes its snapshot after the power state has changed
\* (fault variant).
set_power_snapshot_after(m, on) ==
    IF on /\ ~is_on(m.cur)
    THEN store_state([m EXCEPT !.cur.power_state = "on"])
    ELSE IF ~on /\ is_on(m.cur)
    THEN store_state([m EXCEPT !.cur.power_state = "off"])
    ELSE m

set_power(m, on) ==
    IF on /\ ~is_on(m.cur)
    THEN [store_state(m) EXCEPT !.cur.power_state = "on"]
    ELSE IF ~on /\ is_on(m.cur)
    THEN [store_state(m) EXCEPT !.cur.power_state = "off"]
    ELSE m

\* set_mute that silences the recorded volume and stores the pre-mute volume
\* whether or not the zone is muted already (fault variant).
set_mute_zeroing(m, muted) ==
    IF muted
    THEN [m EXCEPT !.cur = [m.cur EXCEPT !.pre_mute_volume = m.cur.volume,
                                         !.volume = 0, !.is_muted = TRUE]]
    ELSE IF m.cur.is_muted
    THEN [m EXCEPT !.cur = restore_mute_state([m.cur EXCEPT !.is_muted = FALSE])]
    ELSE m

\* set_mute that stores the pre-mute volume on every mute request (fault
\* variant).
set_mute_restoring(m, muted) ==
    IF muted
    THEN [m EXCEPT !.cur = [m.cur EXCEPT !.pre_mute_volume = m.cur.volume,
                                         !.is_muted = TRUE]]
    ELSE IF m.cur.is_muted
    THEN [m EXCEPT !.cur = restore_mute_state([m.cur EXCEPT !.is_muted = FALSE])]
    ELSE m

set_mute(m, muted) ==
    IF muted /\ ~m.cur.is_muted
    THEN [m EXCEPT !.cur = [store_mute_state(m.cur) EXCEPT !.is_muted = TRUE]]
    ELSE IF ~muted /\ m.cur.is_muted
    THEN [m EXCEPT !.cur = restore_mute_state([m.cur EXCEPT !.is_muted = FALSE])]
    ELSE m

\* set_volume that leaves the mute flag alone (fault variant).
set_volume_keeps_mute(m, volume) == [m EXCEPT !.cur.volume = volume]

set_volume(m, volume) ==
    LET c == [m.cur EXCEPT !.volume = volume]
    IN  [m EXCEPT !.cur = IF c.is_muted THEN [c EXCEPT !.is_muted = FALSE] ELSE c]

set_input_source(m, input_source) ==
    [m EXCEPT !.cur.input_source = input_source]

(***************************************************************************)
(* State                                                                   *)
(***************************************************************************)
VARIABLES
    mgr,            \* zone -> its Control4StateManager [cur, prev]
    input_labels,   \* zone -> the enabled logical inputs (keys of _input_labels)
    native_value,   \* number control -> _attr_native_value
    transport,      \* coordinator._transport: 0 is None, k the k-th endpoint
    endpoints,      \* the datagram endpoints created so far, in order: the
                    \* status of the socket and the _latest_response of the
                    \* protocol object bound to it
    protocol,       \* coordinator.protocol: 0 is None, k the k-th endpoint's
    received,       \* how many datagrams have arrived so far (the text of
                    \* the k-th to arrive is k)
    routed,         \* zone -> the port argument of the output-select command
                    \* its media player transmitted last (<<>> when none was)
    digital,        \* port -> the flag argument of the digital-flag command
                    \* a media player transmitted last for it (<<>> when none
                    \* was), kept for the ports in its domain
    calls,          \* zone -> how many of its operations concurrent callers
                    \* have invoked
    locked,         \* coordinator._lock._locked
    waiters,        \* coordinator._lock._waiters, first come first
    running,        \* the task the event loop is running now, 0 when none
    task,           \* task slot -> the operation in flight in it
    lastOp,         \* zone -> the operation that has just completed on it
                    \* (kept until the next one starts): what it was called
                    \* with, the state it found and left, what it sent
    lastCall        \* the coordinator or number-control call that has just
                    \* completed (kept until the next one starts)

vars == <<mgr, input_labels, native_value, transport, endpoints, protocol,
          received, routed, digital, calls, locked, waiters, running, task, lastOp,
          lastCall>>

\* The number controls of the model.
Numbers == {"gain_digital_1", "bass_1"}

\* The label tables a configuration entry may hold (enabled logical inputs).
LabelConfigs == {{}, {5}, {2, 5}}

\* Volumes a caller sets (thousandths).
SetVolumes == {0, 100}

\* ep: the endpoint the task is creating; sock: the socket its last command
\* went out on; seen, heard: the datagrams that had arrived when that command
\* was transmitted and when its wait ended; ret: what its last
\* async_send_command returned; failed: a sendto found no open socket.
IdleTask ==
    [op |-> "idle", z |-> 0, n |-> "", a1 |-> 0, a2 |-> 0, a3 |-> 0,
     pc |-> "idle", cmds |-> <<>>, spc |-> "idle", sent |-> <<>>, loc |-> <<>>,
     pre |-> NewManager, labels |-> {}, before |-> <<>>,
     ep |-> 0, sock |-> 0, seen |-> 0, heard |-> 0, ret |-> None, failed |-> FALSE]

\* pre, post: the zone's state manager when the operation was called and when
\* it returned; labels: the enabled inputs when it was called; before: <<the
\* zone's current state when the turn_off was called that completed directly
\* before this operation>>, else <<>>; raised: the operation ended by an
\* exception that a send raised.
NoOp ==
    [op |-> "none", a1 |-> 0, pre |-> NewManager, labels |-> {},
     before |-> <<>>, sent |-> <<>>, post |-> NewManager, raised |-> FALSE]

\* n: the number control called ("" for a call of the coordinator itself);
\* pre, post: its stored value when called and on return (for async_start
\* and async_stop: coordinator._transport); sock, seen, heard, ret, failed:
\* as in the task; closed: the sockets the call closed; raised: the call
\* ended by an exception that a send raised.
NoCall ==
    [op |-> "none", n |-> "", a1 |-> 0, a2 |-> 0, a3 |-> 0, sent |-> <<>>,
     pre |-> 0, post |-> 0,
     sock |-> 0, seen |-> 0, heard |-> 0, ret |-> None, failed |-> FALSE,
     closed |-> {}, raised |-> FALSE]

ZoneOps == {"turn_on", "turn_off", "select_source", "set_volume_level", "mute_volume"}
ClientOps == {"select_input", "set_volume", "set_balance", "set_input_gain",
              "set_bass", "set_treble"}

Active(t) == task[t].op # "idle"

\* New operations take the lowest free task slot.
FreeSlot(t) == ~Active(t) /\ \A u \in Tasks : u < t => Active(u)

\* The last key of the label table instead of the first (fault variant).
Max(S) == CHOOSE x \in S : \A y \in S : x >= y

\* The first key of _input_labels, which _update_labels fills in the order
\* 1..6.
Min(S) == CHOOSE x \in S : \A y \in S : x <= y

Init ==
    /\ mgr = [z \in Zones |-> NewManager]
    /\ input_labels \in [Zones -> LabelConfigs]
    /\ native_value = [n \in Numbers |-> 0]
    /\ transport = 0
    /\ endpoints = <<>>
    /\ protocol = 0
    /\ received = 0
    /\ routed = [z \in Zones |-> <<>>]
    /\ digital = <<>>
    /\ calls = [z \in Zones |-> 0]
    /\ locked = FALSE
    /\ waiters = <<>>
    /\ running = 0
    /\ task = [t \in Tasks |-> IdleTask]
    /\ lastOp = [z \in Zones |-> NoOp]
    /\ lastCall = NoCall

(***************************************************************************)
(* CommandTransport: async_send_command.  The code between two awaits runs *)
(* without interruption, so each action runs a task from where it was      *)
(* suspended to where it suspends next; running is the task that holds the *)
(* event loop between two coordinator calls, 0 when every task is          *)
(* suspended or done.                                                      *)
(***************************************************************************)
\* A send that does not wait for the lock (fault variant).
LockIgnored == TRUE

\* asyncio.Lock.acquire takes the lock at once when it is free and nobody
\* waits for it.
LockFree == ~locked /\ waiters = <<>>

\* Control4AmpUDPProtocol() and the endpoint being created for it.
NewEndpoint == [status |-> "pending", latest_response |-> None]

IsOpen(sock) == sock \in DOMAIN endpoints /\ endpoints[sock].status = "open"

\* self._transport.sendto(...) raises OSError: the socket the coordinator
\* holds is broken.
SendRaises == transport # 0 /\ endpoints[transport].status = "broken"

\* A sendto that puts the datagram on the wire twice (fault variant).
TransmitOnTwice(tk, t, sock, live) ==
    [tk EXCEPT ![t].sent = Append(Append(@, Head(tk[t].cmds)), Head(tk[t].cmds)),
               ![t].spc = "sleep", ![t].sock = sock, ![t].seen = received,
               ![t].failed = @ \/ ~live]

\* sock.sendto(...), then the wait for a response begins; live says whether
\* sock is an open socket.
TransmitOn(tk, t, sock, live) ==
    [tk EXCEPT ![t].sent = Append(@, Head(tk[t].cmds)), ![t].spc = "sleep",
               ![t].sock = sock, ![t].seen = received,
               ![t].failed = @ \/ ~live]

\* self._transport.sendto(...)
Transmit(tk, t) == TransmitOn(tk, t, transport, IsOpen(transport))

\* routed once task t has transmitted its next command: an output-select
\* that an operation of zone z's media player sends for z is the latest.
RoutedBy(tk, t) ==
    LET cmd == Head(tk[t].cmds)
    IN  [z \in DOMAIN routed |->
            IF tk[t].z = z /\ cmd.verb = CMD_OUTPUT /\ cmd.a1 = Fmt02d(z)
            THEN cmd.a2
            ELSE routed[z]]

\* digital once task t has transmitted its next command: a digital-flag
\* command that an operation of a zone's media player sends is the latest
\* for its port.
FlaggedBy(tk, t) ==
    LET cmd == Head(tk[t].cmds)
    IN  [p \in DOMAIN digital |->
            IF tk[t].z # 0 /\ cmd.verb = CMD_DIGITAL /\ cmd.a1 = Fmt02d(p)
            THEN cmd.a2
            ELSE digital[p]]

\* _async_create_udp_connection up to its await: a new protocol object
\* replaces self.protocol and its endpoint is being created.
CreateEndpoint(tk, t, spc) ==
    /\ endpoints' = Append(endpoints, NewEndpoint)
    /\ protocol' = Len(endpoints) + 1
    /\ task' = [tk EXCEPT ![t].spc = spc, ![t].ep = Len(endpoints) + 1]
    /\ UNCHANGED <<routed, digital>>

\* async_send_command that never opens a socket itself (fault variant).
InLockNoOpen(tk, t) ==
    /\ task' = Transmit(tk, t)
    /\ routed' = RoutedBy(tk, t)
    /\ digital' = FlaggedBy(tk, t)
    /\ UNCHANGED <<endpoints, protocol>>

\* async_send_command that opens a socket for every command (fault variant).
InLockReopen(tk, t) == CreateEndpoint(tk, t, "connect")

\* Inside the lock: open the socket first when there is none; sendto on a
\* broken socket raises, and the exception leaves the async with block.
InLock(tk, t) ==
    IF transport = 0
    THEN CreateEndpoint(tk, t, "connect")
    ELSE IF SendRaises
    THEN /\ task' = [tk EXCEPT ![t].spc = "raised"]
         /\ UNCHANGED <<endpoints, protocol, routed, digital>>
    ELSE /\ task' = Transmit(tk, t)
         /\ routed' = RoutedBy(tk, t)
         /\ digital' = FlaggedBy(tk, t)
         /\ UNCHANGED <<endpoints, protocol>>

\* await self.async_send_command(...) for the first of task t's pending
\* commands, tk being the tasks as the caller leaves them; with no pending
\* command the coordinator call returns without a suspension.
Send(t, tk) ==
    IF tk[t].cmds = <<>>
    THEN /\ task' = tk
         /\ running' = t
         /\ UNCHANGED <<locked, waiters, endpoints, protocol, routed, digital>>
    ELSE IF LockFree
    THEN /\ locked' = ~SendRaises
         /\ InLock(tk, t)
         /\ running' = IF SendRaises THEN t ELSE 0
         /\ UNCHANGED waiters
    ELSE /\ waiters' = Append(waiters, t)
         /\ task' = [tk EXCEPT ![t].spc = "waiting"]
         /\ running' = 0
         /\ UNCHANGED <<locked, endpoints, protocol, routed, digital>>

\* A release that wakes the waiter that came last (fault variant).
LockWakeLast(t) ==
    /\ running = 0
    /\ task[t].spc = "waiting"
    /\ ~locked
    /\ waiters # <<>>
    /\ waiters[Len(waiters)] = t
    /\ waiters' = SubSeq(waiters, 1, Len(waiters) - 1)
    /\ locked' = ~SendRaises
    /\ InLock(task, t)
    /\ running' = IF SendRaises THEN t ELSE 0
    /\ UNCHANGED <<mgr, input_labels, native_value, transport, received, calls,
                   lastOp, lastCall>>

\* release() woke the first waiter; it resumes and takes the lock.
LockWake(t) ==
    /\ running = 0
    /\ task[t].spc = "waiting"
    /\ ~locked
    /\ waiters # <<>>
    /\ Head(waiters) = t
    /\ waiters' = Tail(waiters)
    /\ locked' = ~SendRaises
    /\ InLock(task, t)
    /\ running' = IF SendRaises THEN t ELSE 0
    /\ UNCHANGED <<mgr, input_labels, native_value, transport, received, calls,
                   lastOp, lastCall>>

\* create_datagram_endpoint returns: self._transport = transport; the
\* command is sent on it.
ConnectDone(t) ==
    /\ running = 0
    /\ task[t].spc = "connect"
    /\ transport' = task[t].ep
    /\ endpoints' = [endpoints EXCEPT ![task[t].ep].status = "open"]
    /\ task' = TransmitOn(task, t, task[t].ep, TRUE)
    /\ routed' = RoutedBy(task, t)
    /\ digital' = FlaggedBy(task, t)
    /\ UNCHANGED <<mgr, input_labels, native_value, protocol, received, calls, locked,
                   waiters, running, lastOp, lastCall>>

\* return self.protocol._latest_response
LatestResponse ==
    IF protocol = 0 THEN None ELSE endpoints[protocol].latest_response

\* The wait for a response ends (asyncio.sleep(0.1) under a timeout of 1.0:
\* it always ends by the sleep completing) and the lock is released; the
\* coordinator call goes on to its next command, or returns to its caller.
SendWake(t) ==
    /\ running = 0
    /\ task[t].spc = "sleep"
    /\ LET tk == [task EXCEPT ![t].cmds = Tail(@), ![t].spc = "idle",
                              ![t].ret = LatestResponse, ![t].heard = received]
       IN  IF tk[t].cmds = <<>>
           THEN /\ task' = tk
                /\ running' = t
                /\ locked' = FALSE
                /\ UNCHANGED <<waiters, endpoints, protocol, routed, digital>>
           ELSE IF waiters = <<>>
           THEN /\ InLock(tk, t)
                /\ locked' = ~SendRaises
                /\ running' = IF SendRaises THEN t ELSE 0
                /\ UNCHANGED waiters
           ELSE /\ waiters' = Append(waiters, t)
                /\ task' = [tk EXCEPT ![t].spc = "waiting"]
                /\ locked' = FALSE
                /\ UNCHANGED <<running, endpoints, protocol, routed, digital>>
    /\ UNCHANGED <<mgr, input_labels, native_value, transport, received, calls, lastOp,
                   lastCall>>

\* A failed create_datagram_endpoint that leaves the lock held (fault
\* variant).
ConnectFailKeepsLock(t) ==
    /\ running = 0
    /\ task[t].spc = "connect"
    /\ Len(endpoints) < MaxEndpoints
    /\ endpoints' = [endpoints EXCEPT ![task[t].ep].status = "failed"]
    /\ task' = [task EXCEPT ![t].spc = "raised"]
    /\ running' = t
    /\ UNCHANGED <<mgr, input_labels, native_value, transport, protocol, received,
                   calls, routed, digital, locked, waiters, lastOp, lastCall>>

\* create_datagram_endpoint raises OSError: self._transport is not assigned,
\* and the exception leaves the async with block, which releases the lock.
ConnectFail(t) ==
    /\ running = 0
    /\ task[t].spc = "connect"
    /\ Len(endpoints) < MaxEndpoints
    /\ endpoints' = [endpoints EXCEPT ![task[t].ep].status = "failed"]
    /\ task' = [task EXCEPT ![t].spc = "raised"]
    /\ locked' = FALSE
    /\ running' = t
    /\ UNCHANGED <<mgr, input_labels, native_value, transport, protocol, received,
                   calls, routed, digital, waiters, lastOp, lastCall>>

\* From now on sendto on open socket k raises OSError.
SocketBreaks(k) ==
    /\ running = 0
    /\ IsOpen(k)
    /\ endpoints' = [endpoints EXCEPT ![k].status = "broken"]
    /\ UNCHANGED <<mgr, input_labels, native_value, transport, protocol, received,
                   calls, routed, digital, locked, waiters, running, task, lastOp, lastCall>>

\* sendto on socket k works again.
SocketRecovers(k) ==
    /\ running = 0
    /\ k \in DOMAIN endpoints
    /\ endpoints[k].status = "broken"
    /\ endpoints' = [endpoints EXCEPT ![k].status = "open"]
    /\ UNCHANGED <<mgr, input_labels, native_value, transport, protocol, received,
                   calls, routed, digital, locked, waiters, running, task, lastOp, lastCall>>

(***************************************************************************)
(* Task plumbing                                                           *)
(***************************************************************************)
\* The event loop starts a zone operation as a new task, while no other
\* operation is in flight on that zone.
BeginZone(t, op, z, a1) ==
    /\ running = 0
    /\ FreeSlot(t)
    /\ \A u \in Tasks : task[u].z # z
    /\ task' = [task EXCEPT ![t] =
                  [IdleTask EXCEPT !.op = op, !.z = z, !.a1 = a1,
                                   !.pc = "start", !.pre = mgr[z],
                                   !.labels = input_labels[z],
                                   !.before = IF lastOp[z].op = "turn_off"
                                              THEN <<lastOp[z].pre.cur>>
                                              ELSE <<>>]]
    /\ lastOp' = [lastOp EXCEPT ![z] = NoOp]
    /\ running' = t
    /\ UNCHANGED <<mgr, input_labels, native_value, transport, endpoints,
                   protocol, received, calls, routed, digital, locked, waiters, lastCall>>

\* The running task is at label pc of its operation, between coordinator calls.
At(t, op, pc) ==
    /\ running = t
    /\ task[t].op = op
    /\ task[t].pc = pc
    /\ task[t].cmds = <<>>
    /\ task[t].spc = "idle"

\* await self.coordinator.async_...(...): cmds are the commands the call
\* sends; the task goes on at pc when the call has returned.
Call(t, cmds, pc) == Send(t, [task EXCEPT ![t].cmds = cmds, ![t].pc = pc])

Goto(t, pc) ==
    /\ task' = [task EXCEPT ![t].pc = pc]
    /\ UNCHANGED <<locked, waiters, running, endpoints, protocol, routed, digital>>

\* A zone operation returns; m is the zone's state manager as it leaves it.
FinishZone(t, m) ==
    LET z == task[t].z
    IN  /\ mgr' = [mgr EXCEPT ![z] = m]
        /\ lastOp' = [lastOp EXCEPT ![z] =
                        [op |-> task[t].op, a1 |-> task[t].a1,
                         pre |-> task[t].pre, labels |-> task[t].labels,
                         before |-> task[t].before,
                         sent |-> task[t].sent, post |-> m,
                         raised |-> task[t].spc = "raised"]]
        /\ task' = [task EXCEPT ![t] = IdleTask]
        /\ running' = 0
        /\ UNCHANGED <<input_labels, native_value, transport, endpoints, protocol,
                       received, calls, routed, digital, locked, waiters, lastCall>>

StepFrame ==
    UNCHANGED <<input_labels, native_value, transport, received, calls, lastOp, lastCall>>

(***************************************************************************)
(* ZoneController: Control4AmpMediaPlayer                                  *)
(***************************************************************************)
\* async_select_source that records the input and the power state before
\* it sends (fault variant).
SelectSourceEager(t) ==
    /\ At(t, "select_source", "start")
    /\ LET z == task[t].z
           input_number == IF task[t].a1 \in input_labels[z] THEN task[t].a1 ELSE None
       IN  IF input_number # None
           THEN /\ Call(t, SelectInputCmds(z, input_number), "selected")
                /\ StepFrame
                /\ mgr' = [mgr EXCEPT ![z] =
                              set_power(set_input_source(@, input_number), TRUE)]
           ELSE FinishZone(t, mgr[z])

\* async_select_source: the source names the label of logical input a1.
SelectSource(t) ==
    /\ At(t, "select_source", "start")
    /\ LET z == task[t].z
           input_number == IF task[t].a1 \in input_labels[z] THEN task[t].a1 ELSE None
       IN  IF input_number # None
           THEN /\ Call(t, SelectInputCmds(z, input_number), "selected")
                /\ StepFrame
                /\ UNCHANGED mgr
           ELSE FinishZone(t, mgr[z])

\* async_select_source that records the input but not the power state
\* (fault variant).
SelectSourceDoneNoPower(t) ==
    /\ At(t, "select_source", "selected")
    /\ FinishZone(t, set_input_source(mgr[task[t].z], task[t].a1))

SelectSourceDone(t) ==
    /\ At(t, "select_source", "selected")
    /\ FinishZone(t, set_power(set_input_source(mgr[task[t].z], task[t].a1), TRUE))

\* async_set_volume_level
SetVolumeLevel(t) ==
    /\ At(t, "set_volume_level", "start")
    /\ Call(t, SetVolumeCmds(task[t].z, task[t].a1), "sent")
    /\ StepFrame
    /\ UNCHANGED mgr

SetVolumeLevelDone(t) ==
    /\ At(t, "set_volume_level", "sent")
    /\ FinishZone(t, set_volume(mgr[task[t].z], task[t].a1))

\* The unmute volume floored at the default (fault variant).
UnmuteVolumeFloored(restore_volume) ==
    IF restore_volume >= DefaultVolume THEN restore_volume ELSE DefaultVolume

\* The volume async_mute_volume(False) puts on the wire.
UnmuteVolume(restore_volume) ==
    IF restore_volume > 0 THEN restore_volume ELSE DefaultVolume

\* async_mute_volume without the comparison with the current mute flag
\* (fault variant).
MuteVolumeAlways(t) ==
    /\ At(t, "mute_volume", "start")
    /\ LET z == task[t].z
           mute == task[t].a1 = 1
           m == set_mute(mgr[z], mute)
       IN  /\ mgr' = [mgr EXCEPT ![z] = m]
           /\ Call(t, SetVolumeCmds(z, IF mute THEN 0 ELSE UnmuteVolume(m.cur.volume)),
                   "sent")
           /\ StepFrame

\* async_mute_volume: a1 = 1 mutes, a1 = 0 unmutes.
MuteVolume(t) ==
    /\ At(t, "mute_volume", "start")
    /\ LET z == task[t].z
           mute == task[t].a1 = 1
       IN  IF mute # mgr[z].cur.is_muted
           THEN LET m == set_mute(mgr[z], mute)
                IN  /\ mgr' = [mgr EXCEPT ![z] = m]
                    /\ Call(t, SetVolumeCmds(z,
                                 IF mute THEN 0 ELSE UnmuteVolume(m.cur.volume)),
                            "sent")
                    /\ StepFrame
           ELSE FinishZone(t, mgr[z])

MuteVolumeDone(t) ==
    /\ At(t, "mute_volume", "sent")
    /\ FinishZone(t, mgr[task[t].z])

\* async_turn_off
TurnOff(t) ==
    /\ At(t, "turn_off", "start")
    /\ mgr' = [mgr EXCEPT ![task[t].z] = set_power(@, FALSE)]
    /\ Call(t, SelectInputCmds(task[t].z, NO_INPUT_SOURCE), "routed")
    /\ StepFrame

TurnOffDone(t) ==
    /\ At(t, "turn_off", "routed")
    /\ FinishZone(t, set_input_source(mgr[task[t].z], NO_INPUT_SOURCE))

\* async_turn_on: loc holds previous_state, a2 holds first_input.
TurnOn(t) ==
    /\ At(t, "turn_on", "start")
    /\ LET z == task[t].z
           previous_state == mgr[z].prev
       IN  IF previous_state # <<>> /\ previous_state[1].input_source # None
           THEN Send(t, [task EXCEPT
                           ![t].loc = previous_state,
                           ![t].cmds = SelectInputCmds(z, previous_state[1].input_source),
                           ![t].pc = "restored"])
           ELSE IF input_labels[z] # {}
           THEN Send(t, [task EXCEPT
                           ![t].a2 = Min(input_labels[z]),
                           ![t].cmds = SelectInputCmds(z, Min(input_labels[z])),
                           ![t].pc = "first"])
           ELSE Goto(t, "power")
    /\ StepFrame
    /\ UNCHANGED mgr

TurnOnRestored(t) ==
    /\ At(t, "turn_on", "restored")
    /\ LET z == task[t].z
           previous_state == task[t].loc[1]
       IN  /\ mgr' = [mgr EXCEPT ![z] = set_input_source(@, previous_state.input_source)]
           /\ IF ~previous_state.is_muted
              THEN IF previous_state.volume # None
                   THEN Call(t, SetVolumeCmds(z, previous_state.volume), "volume")
                   ELSE Goto(t, "power")
              ELSE Call(t, SetVolumeCmds(z, 0), "muted")
    /\ StepFrame

TurnOnVolume(t) ==
    /\ At(t, "turn_on", "volume")
    /\ mgr' = [mgr EXCEPT ![task[t].z] = set_volume(@, task[t].loc[1].volume)]
    /\ Goto(t, "power")
    /\ StepFrame

TurnOnMuted(t) ==
    /\ At(t, "turn_on", "muted")
    /\ mgr' = [mgr EXCEPT ![task[t].z] = set_mute(@, TRUE)]
    /\ Goto(t, "power")
    /\ StepFrame

TurnOnFirst(t) ==
    /\ At(t, "turn_on", "first")
    /\ LET z == task[t].z
           m == set_input_source(mgr[z], task[t].a2)
       IN  /\ mgr' = [mgr EXCEPT ![z] = m]
           /\ IF ~m.cur.is_muted
              THEN Call(t, SetVolumeCmds(z, DefaultVolume), "default")
              ELSE Goto(t, "power")
    /\ StepFrame

TurnOnDefault(t) ==
    /\ At(t, "turn_on", "default")
    /\ mgr' = [mgr EXCEPT ![task[t].z] = set_volume(@, DefaultVolume)]
    /\ Goto(t, "power")
    /\ StepFrame

TurnOnPower(t) ==
    /\ At(t, "turn_on", "power")
    /\ FinishZone(t, set_power(mgr[task[t].z], TRUE))

\* _handle_config_entry_update: the configuration entry now enables the
\* inputs in labels; every zone refreshes its labels and forgets a current
\* input that has no label.  It comes while no zone operation is in flight.
ConfigUpdate(labels) ==
    /\ running = 0
    /\ \A t \in Tasks : task[t].z = 0
    /\ input_labels' = [z \in Zones |-> labels]
    /\ mgr' = [z \in Zones |->
                 LET current_input == mgr[z].cur.input_source
                 IN  IF current_input # None /\ current_input \notin labels
                     THEN set_input_source(mgr[z], None)
                     ELSE mgr[z]]
    /\ lastOp' = [z \in Zones |-> NoOp]
    /\ UNCHANGED <<native_value, transport, endpoints, protocol, received, calls, routed, digital,
                   locked, waiters, running, task, lastCall>>

(***************************************************************************)
(* The number controls (number.py) and direct calls of the coordinator     *)
(***************************************************************************)
\* The commands of a coordinator operation called with (a1, a2, a3).
ClientCmds(op, a1, a2, a3) ==
    CASE op = "select_input" -> SelectInputCmds(a1, a2)
      [] op = "set_volume" -> SetVolumeCmds(a1, a2)
      [] op = "set_balance" -> SetBalanceCmds(a1, a2)
      [] op = "set_input_gain" -> SetInputGainCmds(a1, a2, a3 = 1)
      [] op = "set_bass" -> SetBassCmds(a1, a2)
      [] op = "set_treble" -> SetTrebleCmds(a1, a2)

\* Control4InputGainNumber / Control4BassNumber .async_set_native_value:
\* the coordinator call a number control makes for a value.
NumberCmds(n, value) ==
    CASE n = "gain_digital_1" -> SetInputGainCmds(1, value, TRUE)
      [] n = "bass_1" -> SetBassCmds(1, value)

\* A caller invokes an operation of the coordinator, or (n # "") sets the
\* value a2 of number control n.
BeginCall(t, op, n, a1, a2, a3) ==
    /\ running = 0
    /\ FreeSlot(t)
    /\ task' = [task EXCEPT ![t] =
                  [IdleTask EXCEPT !.op = op, !.n = n, !.a1 = a1, !.a2 = a2,
                                   !.a3 = a3, !.pc = "start"]]
    /\ lastCall' = NoCall
    /\ running' = t
    /\ UNCHANGED <<mgr, input_labels, native_value, transport, endpoints,
                   protocol, received, calls, routed, digital, locked, waiters, lastOp>>

FinishCall(t, pre, post) ==
    /\ lastCall' = [op |-> task[t].op, n |-> task[t].n, a1 |-> task[t].a1,
                    a2 |-> task[t].a2, a3 |-> task[t].a3, sent |-> task[t].sent,
                    pre |-> pre, post |-> post,
                    sock |-> task[t].sock, seen |-> task[t].seen,
                    heard |-> task[t].heard, ret |-> task[t].ret,
                    failed |-> task[t].failed, closed |-> {},
                    raised |-> task[t].spc = "raised"]
    /\ task' = [task EXCEPT ![t] = IdleTask]
    /\ running' = 0
    /\ UNCHANGED <<mgr, input_labels, transport, endpoints, protocol, received, calls,
                   routed, digital, locked, waiters, lastOp>>

\* The exception a send raised propagates: no coordinator operation, number
\* control or media player method catches it, so the operation of task t
\* ends where it is.
Raise(t) ==
    /\ running = t
    /\ task[t].spc = "raised"
    /\ IF task[t].z # 0
       THEN FinishZone(t, mgr[task[t].z])
       ELSE /\ LET value == IF task[t].n # "" THEN native_value[task[t].n] ELSE 0
               IN  FinishCall(t, value, value)
            /\ UNCHANGED native_value

ClientCall(t) ==
    /\ running = t
    /\ task[t].op \in ClientOps
    /\ task[t].pc = "start"
    /\ Call(t, ClientCmds(task[t].op, task[t].a1, task[t].a2, task[t].a3), "returned")
    /\ StepFrame
    /\ UNCHANGED mgr

ClientReturn(t) ==
    /\ running = t
    /\ task[t].op \in ClientOps
    /\ At(t, task[t].op, "returned")
    /\ FinishCall(t, 0, 0)
    /\ UNCHANGED native_value

\* async_set_native_value(value): await the coordinator call, ...
NumberSet(t) ==
    /\ At(t, "set_native_value", "start")
    /\ Call(t, NumberCmds(task[t].n, task[t].a2), "called")
    /\ StepFrame
    /\ UNCHANGED mgr

\* ... then self._attr_native_value = value
NumberStore(t) ==
    /\ At(t, "set_native_value", "called")
    /\ native_value' = [native_value EXCEPT ![task[t].n] = task[t].a2]
    /\ FinishCall(t, native_value[task[t].n], task[t].a2)

(***************************************************************************)
(* Specifications                                                          *)
(***************************************************************************)
\* A caller invokes an operation of a zone's media player.
StartZoneOp ==
    \E t \in Tasks, z \in Zones :
        \/ BeginZone(t, "turn_on", z, 0)
        \/ BeginZone(t, "turn_off", z, 0)
        \/ \E n \in 1..6 : BeginZone(t, "select_source", z, n)
        \/ \E v \in SetVolumes : BeginZone(t, "set_volume_level", z, v)
        \/ \E m \in {0, 1} : BeginZone(t, "mute_volume", z, m)

\* A caller invokes an operation of the coordinator with arguments in and
\* around its domain; such calls come one at a time.
Outputs == (1 - Slack)..(NUM_OUTPUTS + Slack)
Inputs == (0 - Slack)..(6 + Slack)
Around(lo, hi) == (lo - Slack)..(hi + Slack)
CallVolumes == {0, 290, 300, 500, 1000}

StartClientOp ==
    \E t \in Tasks :
        /\ \A u \in Tasks : task[u].op \notin ClientOps
        /\ \/ \E o \in Outputs, i \in Inputs : BeginCall(t, "select_input", "", o, i, 0)
           \/ \E o \in Outputs, v \in CallVolumes : BeginCall(t, "set_volume", "", o, v, 0)
           \/ \E o \in Outputs, b \in Around(BALANCE_MIN, BALANCE_MAX) :
                  BeginCall(t, "set_balance", "", o, b, 0)
           \/ \E i \in Outputs, g \in Around(GAIN_MIN, GAIN_MAX), d \in {0, 1} :
                  BeginCall(t, "set_input_gain", "", i, g, d)
           \/ \E o \in Outputs, l \in Around(TONE_MIN, TONE_MAX) :
                  BeginCall(t, "set_bass", "", o, l, 0)
           \/ \E o \in Outputs, l \in Around(TONE_MIN, TONE_MAX) :
                  BeginCall(t, "set_treble", "", o, l, 0)

\* The values a caller gives a number control: its maximum, and values
\* beyond its range on either side.
NumberValues(n) ==
    LET lo == IF n = "bass_1" THEN TONE_MIN ELSE GAIN_MIN
        hi == IF n = "bass_1" THEN TONE_MAX ELSE GAIN_MAX
    IN  {lo - Slack} \cup (hi..(hi + Slack))

\* A caller sets a number control that has no call in flight.
StartNumberOp ==
    \E t \in Tasks, n \in Numbers :
        /\ \A u \in Tasks : task[u].n # n
        /\ \E v \in NumberValues(n) : BeginCall(t, "set_native_value", n, 0, v, 0)

\* A caller routes an output: no input, or a digital one.
StartRouteOp ==
    \E t \in Tasks, o \in Zones, i \in {NO_INPUT_SOURCE, 5} :
        BeginCall(t, "select_input", "", o, i, 0)

SendStep(t) ==
    \/ LockWake(t)
    \/ ConnectDone(t)
    \/ SendWake(t)

ZoneStep(t) ==
    \/ SelectSource(t) \/ SelectSourceDone(t)
    \/ SetVolumeLevel(t) \/ SetVolumeLevelDone(t)
    \/ MuteVolume(t) \/ MuteVolumeDone(t)
    \/ TurnOff(t) \/ TurnOffDone(t)
    \/ TurnOn(t) \/ TurnOnRestored(t) \/ TurnOnVolume(t) \/ TurnOnMuted(t)
    \/ TurnOnFirst(t) \/ TurnOnDefault(t) \/ TurnOnPower(t)

\* The zone media player: its operations and the replacements of the label
\* table come one at a time, and nothing else uses the coordinator.
Next ==
    \/ StartZoneOp
    \/ \E t \in Tasks : ZoneStep(t)
    \/ \E t \in Tasks : ConnectDone(t) \/ SendWake(t)
    \/ \E labels \in LabelConfigs : ConfigUpdate(labels)

Spec == Init /\ [][Next]_vars

\* The coordinator's operations, called one at a time with arguments in
\* and around their domains.
NextClient ==
    \/ StartClientOp
    \/ \E t \in Tasks : ClientCall(t) \/ ClientReturn(t)
    \/ \E t \in Tasks : ConnectDone(t) \/ SendWake(t)

SpecClient == Init /\ [][NextClient]_vars

\* The coordinator under concurrent callers: the number controls are set
\* while inputs are routed.
NextShared ==
    \/ StartNumberOp
    \/ StartRouteOp
    \/ \E t \in Tasks : ClientCall(t) \/ ClientReturn(t)
    \/ \E t \in Tasks : NumberSet(t) \/ NumberStore(t)
    \/ \E t \in Tasks : SendStep(t)

SpecShared == Init /\ [][NextShared]_vars

\* The event loop starts a zone operation as a new task, whatever else is in
\* flight on the zone.
BeginZoneConcurrent(t, op, z, a1) ==
    /\ running = 0
    /\ FreeSlot(t)
    /\ calls[z] < MaxCalls
    /\ calls' = [calls EXCEPT ![z] = @ + 1]
    /\ task' = [task EXCEPT ![t] =
                  [IdleTask EXCEPT !.op = op, !.z = z, !.a1 = a1,
                                   !.pc = "start", !.pre = mgr[z],
                                   !.labels = input_labels[z]]]
    /\ lastOp' = [lastOp EXCEPT ![z] = NoOp]
    /\ running' = t
    /\ UNCHANGED <<mgr, input_labels, native_value, transport, endpoints,
                   protocol, received, routed, digital, locked, waiters, lastCall>>

\* Callers invoke the operations of a zone's media player concurrently.
StartConcurrentZoneOp ==
    \E t \in Tasks, z \in Zones :
        \/ BeginZoneConcurrent(t, "turn_on", z, 0)
        \/ BeginZoneConcurrent(t, "turn_off", z, 0)
        \/ \E n \in {2, 5} : BeginZoneConcurrent(t, "select_source", z, n)
        \/ BeginZoneConcurrent(t, "set_volume_level", z, 100)
        \/ \E m \in {0, 1} : BeginZoneConcurrent(t, "mute_volume", z, m)

\* The zone media player under concurrent callers.
NextZone ==
    \/ StartConcurrentZoneOp
    \/ \E t \in Tasks : ZoneStep(t)
    \/ \E t \in Tasks : SendStep(t)

SpecZone == Init /\ [][NextZone]_vars

\* async_send_command called directly, with one command.
SendCommand(t) ==
    /\ At(t, "send_command", "start")
    /\ Call(t, <<Cmd(CMD_VOLUME, Fmt02d(1), Hex(VolumeValue(0)))>>, "returned")
    /\ StepFrame
    /\ UNCHANGED mgr

SendCommandReturn(t) ==
    /\ At(t, "send_command", "returned")
    /\ FinishCall(t, 0, 0)
    /\ UNCHANGED native_value

\* async_start: _async_create_udp_connection up to its await; a1 holds
\* self._transport as the call found it.
AsyncStart(t) ==
    /\ At(t, "start", "start")
    /\ CreateEndpoint([task EXCEPT ![t].pc = "created", ![t].a1 = transport], t, "open")
    /\ running' = 0
    /\ UNCHANGED <<mgr, locked, waiters>>
    /\ StepFrame

\* create_datagram_endpoint returns: self._transport = transport.
AsyncStartDone(t) ==
    /\ running = 0
    /\ task[t].spc = "open"
    /\ transport' = task[t].ep
    /\ endpoints' = [endpoints EXCEPT ![task[t].ep].status = "open"]
    /\ lastCall' = [NoCall EXCEPT !.op = "start", !.pre = task[t].a1,
                                  !.post = task[t].ep]
    /\ task' = [task EXCEPT ![t] = IdleTask]
    /\ UNCHANGED <<mgr, input_labels, native_value, protocol, received, calls, routed, digital,
                   locked, waiters, running, lastOp>>

\* async_stop that closes the socket but keeps the reference (fault variant).
AsyncStopKeepsReference ==
    /\ running = 0
    /\ Len(endpoints) < MaxEndpoints
    /\ endpoints' = IF transport # 0
                    THEN [endpoints EXCEPT ![transport].status = "closed"]
                    ELSE endpoints
    /\ lastCall' = [NoCall EXCEPT !.op = "stop", !.pre = transport,
                                  !.post = transport,
                                  !.closed = IF transport # 0 THEN {transport} ELSE {}]
    /\ UNCHANGED <<mgr, input_labels, native_value, transport, protocol, received, calls,
                   routed, digital, locked, waiters, running, task, lastOp>>

\* async_stop: it has no await and runs in one step.
AsyncStop ==
    /\ running = 0
    /\ Len(endpoints) < MaxEndpoints
    /\ endpoints' = IF transport # 0
                    THEN [endpoints EXCEPT ![transport].status = "closed"]
                    ELSE endpoints
    /\ transport' = 0
    /\ lastCall' = [NoCall EXCEPT !.op = "stop", !.pre = transport, !.post = 0,
                                  !.closed = IF transport # 0 THEN {transport} ELSE {}]
    /\ UNCHANGED <<mgr, input_labels, native_value, protocol, received, calls, routed, digital,
                   locked, waiters, running, task, lastOp>>

\* Control4AmpUDPProtocol.datagram_received on the protocol object of open
\* socket k.
DatagramReceived(k) ==
    /\ running = 0
    /\ received < MaxDatagrams
    /\ IsOpen(k)
    /\ received' = received + 1
    /\ endpoints' = [endpoints EXCEPT ![k].latest_response = received + 1]
    /\ UNCHANGED <<mgr, input_labels, native_value, transport, protocol, routed, digital,
                   calls, locked, waiters, running, task, lastOp, lastCall>>

\* A caller sends a command, or starts the coordinator.
StartTransportOp ==
    \E t \in Tasks :
        \/ BeginCall(t, "send_command", "", 0, 0, 0)
        \/ /\ Len(endpoints) < MaxEndpoints
           /\ BeginCall(t, "start", "", 0, 0, 0)

\* The coordinator's transport under concurrent sends, starts and stops,
\* with datagrams arriving from the amplifier.
NextTransport ==
    \/ StartTransportOp
    \/ \E t \in Tasks : SendCommand(t) \/ SendCommandReturn(t)
    \/ \E t \in Tasks : AsyncStart(t) \/ AsyncStartDone(t)
    \/ \E t \in Tasks : SendStep(t)
    \/ AsyncStop
    \/ \E k \in DOMAIN endpoints : DatagramReceived(k)

SpecTransport == Init /\ [][NextTransport]_vars

\* A caller selects a source on a zone that has no operation in flight, or
\* calls the coordinator for another output while no such call is in flight.
StartFaultOp ==
    \E t \in Tasks :
        \/ \E z \in Zones, n \in {2, 5} : BeginZone(t, "select_source", z, n)
        \/ /\ \A u \in Tasks : task[u].op \notin ClientOps
           /\ \/ \E i \in {NO_INPUT_SOURCE, 6} :
                     BeginCall(t, "select_input", "", 2, i, 0)
              \/ BeginCall(t, "set_volume", "", 2, DefaultVolume, 0)

\* The media player and the coordinator over a transport that fails: opening
\* the socket may fail, the socket may break and recover, and datagrams
\* arrive or do not.
NextFault ==
    \/ StartFaultOp
    \/ \E t \in Tasks : SelectSource(t) \/ SelectSourceDone(t)
    \/ \E t \in Tasks : ClientCall(t) \/ ClientReturn(t)
    \/ \E t \in Tasks : SendStep(t)
    \/ \E t \in Tasks : ConnectFail(t) \/ Raise(t)
    \/ \E k \in DOMAIN endpoints : SocketBreaks(k) \/ SocketRecovers(k)
    \/ \E k \in DOMAIN endpoints : DatagramReceived(k)

SpecFault == Init /\ [][NextFault]_vars

\* A caller turns a zone off, mutes or unmutes it, or selects a source on
\* it, while no operation is in flight on the zone.
StartZoneFaultOp ==
    \E t \in Tasks, z \in Zones :
        \/ BeginZone(t, "turn_off", z, 0)
        \/ \E m \in {0, 1} : BeginZone(t, "mute_volume", z, m)
        \/ BeginZone(t, "select_source", z, 5)

\* The zone media player, one operation at a time, over a transport that
\* fails: opening the socket may fail, and the socket may break and recover.
NextZoneFault ==
    \/ StartZoneFaultOp
    \/ \E t \in Tasks : SelectSource(t) \/ SelectSourceDone(t)
    \/ \E t \in Tasks : MuteVolume(t) \/ MuteVolumeDone(t)
    \/ \E t \in Tasks : TurnOff(t) \/ TurnOffDone(t)
    \/ \E t \in Tasks : ConnectDone(t) \/ SendWake(t)
    \/ \E t \in Tasks : ConnectFail(t) \/ Raise(t)
    \/ \E k \in DOMAIN endpoints : SocketBreaks(k) \/ SocketRecovers(k)

SpecZoneFault == Init /\ [][NextZoneFault]_vars

\* Control4AmpParentMediaPlayer._children: the media players of the enabled
\* outputs.
Children == {1, 2}

\* The parent and its children after construction: all of them read their
\* labels from the one configuration entry.
InitParent ==
    /\ mgr = [z \in Children |-> NewManager]
    /\ \E labels \in LabelConfigs : input_labels = [z \in Children |-> labels]
    /\ native_value = [n \in Numbers |-> 0]
    /\ transport = 0
    /\ endpoints = <<>>
    /\ protocol = 0
    /\ received = 0
    /\ routed = [z \in Children |-> <<>>]
    /\ digital = <<>>
    /\ calls = [z \in Children |-> 0]
    /\ locked = FALSE
    /\ waiters = <<>>
    /\ running = 0
    /\ task = [t \in Tasks |-> IdleTask]
    /\ lastOp = [z \in Children |-> NoOp]
    /\ lastCall = NoCall

\* Control4AmpParentMediaPlayer._input_labels: _update_labels builds it from
\* the configuration entry as each child's does.
ParentLabels == input_labels[Min(Children)]

\* A gather over the first child only (fault variant).
ParentGatherFirstOnly(op, a1) ==
    /\ running = 0
    /\ \A t \in Tasks : ~Active(t)
    /\ task' = [t \in Tasks |->
                  IF t = Min(Children)
                  THEN [IdleTask EXCEPT !.op = op, !.z = t, !.a1 = a1,
                                        !.pc = "start", !.pre = mgr[t],
                                        !.labels = input_labels[t]]
                  ELSE IdleTask]
    /\ lastOp' = [z \in Children |-> NoOp]
    /\ lastCall' = [NoCall EXCEPT !.op = op, !.n = "parent", !.a1 = a1]
    /\ running' = Min(Children)
    /\ UNCHANGED <<mgr, input_labels, native_value, transport, endpoints,
                   protocol, received, calls, routed, digital, locked, waiters>>

\* tasks = [child.async_...(...) for child in self._children];
\* await asyncio.gather(*tasks): the coroutine of child z becomes task z, and
\* the tasks start in the order of the children.  lastCall tells which
\* aggregate is running; it has completed when all its tasks are done.
ParentGather(op, a1) ==
    /\ running = 0
    /\ \A t \in Tasks : ~Active(t)
    /\ task' = [t \in Tasks |->
                  IF t \in Children
                  THEN [IdleTask EXCEPT !.op = op, !.z = t, !.a1 = a1,
                                        !.pc = "start", !.pre = mgr[t],
                                        !.labels = input_labels[t]]
                  ELSE IdleTask]
    /\ lastOp' = [z \in Children |-> NoOp]
    /\ lastCall' = [NoCall EXCEPT !.op = op, !.n = "parent", !.a1 = a1]
    /\ running' = Min(Children)
    /\ UNCHANGED <<mgr, input_labels, native_value, transport, endpoints,
                   protocol, received, calls, routed, digital, locked, waiters>>

\* The event loop runs the next task of the gather that has not started.
GatherNext(t) ==
    /\ running = 0
    /\ Active(t)
    /\ task[t].pc = "start"
    /\ task[t].spc = "idle"
    /\ \A u \in Tasks : u < t => task[u].pc # "start"
    /\ running' = t
    /\ UNCHANGED <<mgr, input_labels, native_value, transport, endpoints, protocol,
                   received, calls, routed, digital, locked, waiters, task, lastOp, lastCall>>

\* Control4AmpParentMediaPlayer.async_select_source: the source names the
\* label of logical input n (with no such label the call does nothing).
ParentSelectSource(n) ==
    /\ n \in ParentLabels
    /\ ParentGather("select_source", n)

\* Control4AmpParentMediaPlayer.async_turn_off
ParentTurnOff == ParentGather("turn_off", 0)

\* The parent media player: its aggregates come one at a time.
NextParent ==
    \/ \E n \in {2, 5} : ParentSelectSource(n)
    \/ ParentTurnOff
    \/ \E t \in Tasks : GatherNext(t)
    \/ \E t \in Tasks : SelectSource(t) \/ SelectSourceDone(t)
    \/ \E t \in Tasks : TurnOff(t) \/ TurnOffDone(t)
    \/ \E t \in Tasks : SendStep(t)

SpecParent == InitParent /\ [][NextParent]_vars

\* Control4AmpParentMediaPlayer.async_turn_on
ParentTurnOn == ParentGather("turn_on", 0)

\* Control4AmpParentMediaPlayer.async_mute_volume(mute)
ParentMuteVolume(m) == ParentGather("mute_volume", m)

\* Control4AmpParentMediaPlayer.async_set_volume_level(volume)
ParentSetVolumeLevel(v) == ParentGather("set_volume_level", v)

\* What the event loop can run of task t: it starts it, resumes it after a
\* coordinator call, or resumes it inside async_send_command.
AggregateStep(t) ==
    \/ GatherNext(t)
    \/ ZoneStep(t)
    \/ SendStep(t)

\* The parent media player with all its aggregates, one at a time.
NextAggregate ==
    \/ \E n \in {2, 5} : ParentSelectSource(n)
    \/ ParentTurnOff
    \/ ParentTurnOn
    \/ \E m \in {0, 1} : ParentMuteVolume(m)
    \/ ParentSetVolumeLevel(100)
    \/ \E t \in Tasks : AggregateStep(t)

\* The event loop runs every callback that is ready, in the order they became
\* ready, and the 0.1 s sleep of a send always ends: a step of a task that
\* stays possible is taken.  Callers need not call again.
SpecAggregate ==
    /\ InitParent
    /\ [][NextAggregate]_vars
    /\ \A t \in Tasks : WF_vars(AggregateStep(t))

\* The children after construction, with the analog and the digital input
\* of physical port 1 enabled; the digital flags of the shared ports are
\* kept track of.
InitChildren ==
    /\ mgr = [z \in Children |-> NewManager]
    /\ input_labels = [z \in Children |-> {1, 5}]
    /\ native_value = [n \in Numbers |-> 0]
    /\ transport = 0
    /\ endpoints = <<>>
    /\ protocol = 0
    /\ received = 0
    /\ routed = [z \in Children |-> <<>>]
    /\ digital = [p \in {1, 3} |-> <<>>]
    /\ calls = [z \in Children |-> 0]
    /\ locked = FALSE
    /\ waiters = <<>>
    /\ running = 0
    /\ task = [t \in Tasks |-> IdleTask]
    /\ lastOp = [z \in Children |-> NoOp]
    /\ lastCall = NoCall

\* A caller selects a source on a child that has no operation in flight.
StartChildOp ==
    \E t \in Tasks, z \in Children, n \in {1, 5} :
        BeginZone(t, "select_source", z, n)

\* The child media players, each used by its own callers.
NextChildren ==
    \/ StartChildOp
    \/ \E t \in Tasks : SelectSource(t) \/ SelectSourceDone(t)
    \/ \E t \in Tasks : SendStep(t)

SpecChildren == InitChildren /\ [][NextChildren]_vars

\* The state manager by itself, from any zone state: the zone states a
\* Control4ZoneState can hold (restore_from_dict loads any of them).
ZoneStates ==
    [volume : {0, 100}, input_source : {None, 5}, is_muted : BOOLEAN,
     pre_mute_volume : {None, 0, 300}, power_state : {"on", "off"}]

InitManager ==
    /\ mgr \in [Zones -> {[cur |-> s, prev |-> <<>>] : s \in ZoneStates}]
    /\ input_labels = [z \in Zones |-> {}]
    /\ native_value = [n \in Numbers |-> 0]
    /\ transport = 0
    /\ endpoints = <<>>
    /\ protocol = 0
    /\ received = 0
    /\ routed = [z \in Zones |-> <<>>]
    /\ digital = <<>>
    /\ calls = [z \in Zones |-> 0]
    /\ locked = FALSE
    /\ waiters = <<>>
    /\ running = 0
    /\ task = [t \in Tasks |-> IdleTask]
    /\ lastOp = [z \in Zones |-> NoOp]
    /\ lastCall = NoCall

\* A call of a state manager method: m is the manager as the call leaves it.
\* before is <<the state before the preceding call>> when that call was the
\* same method with the same argument.
ManagerCall(z, op, a1, m) ==
    /\ mgr' = [mgr EXCEPT ![z] = m]
    /\ lastOp' = [lastOp EXCEPT ![z] =
                    [NoOp EXCEPT !.op = op, !.a1 = a1, !.pre = mgr[z], !.post = m,
                                 !.before = IF lastOp[z].op = op /\ lastOp[z].a1 = a1
                                            THEN <<lastOp[z].pre.cur>>
                                            ELSE <<>>]]
    /\ UNCHANGED <<input_labels, native_value, transport, endpoints, protocol,
                   received, calls, routed, digital, locked, waiters, running, task, lastCall>>

\* Control4StateManager.set_mute(is_muted)
ManagerSetMute(z, muted) ==
    ManagerCall(z, "set_mute", IF muted THEN 1 ELSE 0, set_mute(mgr[z], muted))

\* Control4StateManager.set_volume(volume)
ManagerSetVolume(z, volume) ==
    ManagerCall(z, "set_volume", volume, set_volume(mgr[z], volume))

\* Control4StateManager.set_power(is_on)
ManagerSetPower(z, on) ==
    ManagerCall(z, "set_power", IF on THEN 1 ELSE 0, set_power(mgr[z], on))

\* Control4StateManager.set_input_source(input_source)
ManagerSetInputSource(z, input_source) ==
    ManagerCall(z, "set_input_source", input_source,
                set_input_source(mgr[z], input_source))

\* The state manager's methods that the media player calls, in any order.
NextManager ==
    \/ \E z \in Zones, muted \in BOOLEAN : ManagerSetMute(z, muted)
    \/ \E z \in Zones, volume \in SetVolumes : ManagerSetVolume(z, volume)
    \/ \E z \in Zones, on \in BOOLEAN : ManagerSetPower(z, on)
    \/ \E z \in Zones, input_source \in {None, NO_INPUT_SOURCE, 5} :
           ManagerSetInputSource(z, input_source)

SpecManager == InitManager /\ [][NextManager]_vars

(***************************************************************************)
(* Reading the wire: what a transmitted command says                       *)
(***************************************************************************)
DigitValue(c) == CHOOSE i \in 0..15 : HexDigits[i + 1] = c

RECURSIVE ParseNat(_, _)
ParseNat(str, base) ==
    IF str = <<>> THEN 0
    ELSE ParseNat(SubSeq(str, 1, Len(str) - 1), base) * base + DigitValue(str[Len(str)])

\* The integer a decimal argument denotes.
ParseInt(str) ==
    IF str[1] = "-" THEN 0 - ParseNat(Tail(str), 10) ELSE ParseNat(str, 10)

\* c is the command verb with decimal arguments x and y.
IsCmd(c, verb, x, y) ==
    /\ c.verb = verb
    /\ ParseInt(c.a1) = x
    /\ ParseInt(c.a2) = y

\* c is the channel-volume command of output z carrying the integer value.
IsVolumeCmd(c, z, value) ==
    /\ c.verb = CMD_VOLUME
    /\ ParseInt(c.a1) = z
    /\ ParseNat(c.a2, 16) = value

\* cmds holds, one right after the other, the output-select of logical
\* input L for output z and the digital-flag command of L's physical port.
RoutesAt(cmds, i, z, L) ==
    /\ i + 1 <= Len(cmds)
    /\ IsCmd(cmds[i], CMD_OUTPUT, z, InputMap[L].port)
    /\ IsCmd(cmds[i + 1], CMD_DIGITAL, InputMap[L].port,
             IF InputMap[L].kind = "digital" THEN 1 ELSE 0)

VolumeCmdsOf(cmds) == {i \in 1..Len(cmds) : cmds[i].verb = CMD_VOLUME}

\* The operation that has just completed on zone z was a turn_on that
\* directly followed a completed turn_off.
PowerCycled(z) == lastOp[z].op = "turn_on" /\ lastOp[z].before # <<>>

(***************************************************************************)
(* Properties                                                              *)
(***************************************************************************)
\* C1: a zone that is ON, unmuted, with input L in 1..6 and volume v, turned
\* off and then on again with nothing in between: the turn_on transmits the
\* selection of L and a channel-volume command for v, and leaves the zone ON
\* with input L, volume v, unmuted.
C1_PowerCycleRestores ==
    \A z \in Zones :
        PowerCycled(z) =>
            LET o == lastOp[z]
                b == o.before[1]
            IN  (is_on(b) /\ ~b.is_muted /\ b.input_source \in 1..6) =>
                    /\ \E i \in 1..Len(o.sent) : RoutesAt(o.sent, i, z, b.input_source)
                    /\ \E i \in 1..Len(o.sent) :
                           IsVolumeCmd(o.sent[i], z, VolumeValue(b.volume))
                    /\ o.post.cur.power_state = "on"
                    /\ o.post.cur.input_source = b.input_source
                    /\ o.post.cur.volume = b.volume
                    /\ ~o.post.cur.is_muted

C1_Witness ==
    \E z \in Zones :
        /\ PowerCycled(z)
        /\ is_on(lastOp[z].before[1])
        /\ ~lastOp[z].before[1].is_muted
        /\ lastOp[z].before[1].input_source = 5
        /\ lastOp[z].before[1].volume = 100
        /\ Len(lastOp[z].sent) = 3

\* The unmute that has just completed on zone z found it muted.
Unmuted(z) ==
    /\ lastOp[z].op = "mute_volume"
    /\ lastOp[z].a1 = 0
    /\ lastOp[z].pre.cur.is_muted

\* The volume it had to restore.
PreMuteVolume(z) == lastOp[z].pre.cur.pre_mute_volume

\* What C2 says of the power cycle of a zone that was ON and muted with
\* pre-mute volume p > 0, holdsFor saying which of those zones it is about.
MutedPowerCycle(holdsFor(_)) ==
    \A z \in Zones :
        /\ PowerCycled(z) =>
              LET o == lastOp[z]
                  b == o.before[1]
              IN  (is_on(b) /\ b.is_muted /\ b.pre_mute_volume > 0 /\ holdsFor(b)) =>
                      /\ o.post.cur.is_muted
                      /\ o.post.cur.power_state = "on"
                      /\ o.post.cur.pre_mute_volume = b.pre_mute_volume
                      /\ VolumeCmdsOf(o.sent) # {}
                      /\ \A i \in VolumeCmdsOf(o.sent) :
                             IsVolumeCmd(o.sent[i], z, VolumeValue(0))
        /\ (Unmuted(z) /\ PreMuteVolume(z) > 0) =>
              /\ ~lastOp[z].post.cur.is_muted
              /\ lastOp[z].post.cur.volume = PreMuteVolume(z)

AnyZone(b) == TRUE
HasInput(b) == b.input_source # None

\* C2 as claimed: for any zone that is ON and muted with pre-mute volume
\* p > 0, turn_off then turn_on ends muted and ON, the volume command the
\* turn_on transmits carries the encoding of 0, and a following unmute
\* restores the recorded volume to p.
C2_Original == MutedPowerCycle(AnyZone)

\* C2, amended: the same, for a zone that records an input source (with
\* none recorded, the turn_on transmits no volume command at all).
C2_MutedPowerCycle == MutedPowerCycle(HasInput)

C2_Witness ==
    \E z \in Zones :
        /\ PowerCycled(z)
        /\ is_on(lastOp[z].before[1])
        /\ lastOp[z].before[1].is_muted
        /\ lastOp[z].before[1].pre_mute_volume = 100
        /\ lastOp[z].before[1].input_source = 5
        /\ VolumeCmdsOf(lastOp[z].sent) # {}

\* C8: a completed turn_off leaves the zone OFF with input NO_INPUT, having
\* transmitted exactly one command, the output-select of port 0 for the
\* zone; if the zone was ON, the previous snapshot holds the input, volume
\* and mute flag it had when turn_off was called.
C8_TurnOff ==
    \A z \in Zones :
        lastOp[z].op = "turn_off" =>
            LET o == lastOp[z]
            IN  /\ o.post.cur.power_state = "off"
                /\ o.post.cur.input_source = NO_INPUT_SOURCE
                /\ Len(o.sent) = 1
                /\ IsCmd(o.sent[1], CMD_OUTPUT, z, 0)
                /\ is_on(o.pre.cur) =>
                       /\ o.post.prev # <<>>
                       /\ o.post.prev[1].input_source = o.pre.cur.input_source
                       /\ o.post.prev[1].volume = o.pre.cur.volume
                       /\ o.post.prev[1].is_muted = o.pre.cur.is_muted

C8_Witness ==
    \E z \in Zones :
        /\ lastOp[z].op = "turn_off"
        /\ is_on(lastOp[z].pre.cur)
        /\ lastOp[z].pre.cur.input_source = 2
        /\ lastOp[z].pre.cur.volume = 100
        /\ lastOp[z].pre.cur.is_muted
        /\ lastOp[z].pre.prev # lastOp[z].post.prev

\* The turn_on that has just completed on zone z found no usable previous
\* snapshot: none, or one that records no input source.
TurnedOnAfresh(z) ==
    /\ lastOp[z].op = "turn_on"
    /\ \/ lastOp[z].pre.prev = <<>>
       \/ lastOp[z].pre.prev[1].input_source = None

\* C9: a turn_on with no usable previous snapshot selects the lowest enabled
\* logical input and, if the zone is not muted, transmits a volume command
\* for 0.3 and records volume 0.3; every completed turn_on, also with no
\* input enabled, leaves the zone ON.
C9_TurnOnAfresh ==
    \A z \in Zones :
        LET o == lastOp[z]
        IN  /\ o.op = "turn_on" => o.post.cur.power_state = "on"
            /\ (TurnedOnAfresh(z) /\ o.labels # {}) =>
                   \E L \in o.labels :
                       /\ \A j \in o.labels : L <= j
                       /\ RoutesAt(o.sent, 1, z, L)
                       /\ o.post.cur.input_source = L
                       /\ IF ~o.pre.cur.is_muted
                          THEN /\ Len(o.sent) = 3
                               /\ IsVolumeCmd(o.sent[3], z, 190)
                               /\ o.post.cur.volume = 300
                               /\ ~o.post.cur.is_muted
                          ELSE /\ Len(o.sent) = 2
                               /\ o.post.cur.is_muted
            /\ (TurnedOnAfresh(z) /\ o.labels = {}) => o.sent = <<>>

C9_Witness ==
    \E z \in Zones :
        /\ TurnedOnAfresh(z)
        /\ lastOp[z].labels = {2, 5}
        /\ lastOp[z].pre.prev # <<>>
        /\ ~lastOp[z].pre.cur.is_muted
        /\ lastOp[z].pre.cur.volume = 100
        /\ Len(lastOp[z].sent) = 3

GreaterOf(a, b) == IF a >= b THEN a ELSE b

\* What C10 says of an unmute of a muted zone: it transmits one volume
\* command, carrying wire(p) for the restored volume p.
UnmuteTransmits(wire(_)) ==
    \A z \in Zones :
        (Unmuted(z) /\ PreMuteVolume(z) \in 0..1000) =>
            /\ lastOp[z].post.cur.volume = PreMuteVolume(z)
            /\ Len(lastOp[z].sent) = 1
            /\ IsVolumeCmd(lastOp[z].sent[1], z, VolumeValue(wire(PreMuteVolume(z))))

FlooredAtDefault(p) == GreaterOf(p, 300)
DefaultIfSilent(p) == IF p = 0 THEN 300 ELSE p

\* C10 as claimed: unmuting a muted zone puts on the wire the greater of the
\* restored volume and 0.3.
C10_Original == UnmuteTransmits(FlooredAtDefault)

\* C10, amended: unmuting a muted zone puts on the wire the restored volume
\* itself when it is above 0 (0.1 is sent as 0.1), and 0.3 when it is 0.
C10_UnmuteVolume == UnmuteTransmits(DefaultIfSilent)

C10_Witness ==
    \E z \in Zones :
        /\ Unmuted(z)
        /\ PreMuteVolume(z) = 100
        /\ Len(lastOp[z].sent) = 1
        /\ IsVolumeCmd(lastOp[z].sent[1], z, 170)

\* The task is inside the lock-guarded section of async_send_command:
\* opening the socket, or transmitted and waiting out the response window.
InLockSection(t) == task[t].spc \in {"connect", "sleep"}

\* C3: with any number of sends in flight, at most one task is inside the
\* lock-guarded section (transmit plus response wait) at any time, and it
\* holds the lock: no send transmits while another's wait window is open.
C3_SendsSerialised ==
    /\ Cardinality({t \in Tasks : InLockSection(t)}) <= 1
    /\ (\E t \in Tasks : InLockSection(t)) => locked

C3_Witness ==
    \E t, u \in Tasks :
        /\ t # u
        /\ task[t].spc = "sleep"
        /\ task[t].sent # <<>>
        /\ task[u].spc = "waiting"
        /\ waiters = <<u>>

LevelOps == {"set_bass", "set_treble", "set_balance"}

LevelRange(op) ==
    IF op = "set_balance" THEN BALANCE_MIN..BALANCE_MAX ELSE -12..12

LevelVerb(op) ==
    CASE op = "set_bass" -> CMD_BASS
      [] op = "set_treble" -> CMD_TREBLE
      [] op = "set_balance" -> CMD_BALANCE

\* C4: for every output in 1..4, set_bass, set_treble and set_balance
\* transmit nothing when the level is outside the operation's range, and
\* exactly one command, carrying the output and that level, when it is
\* inside, the two boundary values included.
C4_LevelRange ==
    (lastCall.op \in LevelOps /\ lastCall.a1 \in 1..NUM_OUTPUTS) =>
        IF lastCall.a2 \in LevelRange(lastCall.op)
        THEN /\ Len(lastCall.sent) = 1
             /\ IsCmd(lastCall.sent[1], LevelVerb(lastCall.op), lastCall.a1, lastCall.a2)
        ELSE lastCall.sent = <<>>

C4_Witness ==
    /\ lastCall.op = "set_bass"
    /\ lastCall.a1 = 1
    /\ lastCall.a2 = 12
    /\ lastCall.sent = <<Cmd(CMD_BASS, <<"0", "1">>, <<"1", "2">>)>>

OutputOps == {"select_input", "set_volume", "set_balance", "set_bass", "set_treble"}

\* C5: every coordinator operation that takes an output (select_input,
\* set_volume, set_balance, set_bass, set_treble) transmits nothing when the
\* output is outside 1..4.
C5_OutputValidated ==
    (lastCall.op \in OutputOps /\ lastCall.a1 \notin 1..NUM_OUTPUTS) =>
        lastCall.sent = <<>>

\* C6: when the coordinator rejects the value a number control was set to
\* (it sends nothing for it), the control's stored value is the same after
\* the call as before it.
C6_RejectionKeepsState ==
    (lastCall.op = "set_native_value" /\ NumberCmds(lastCall.n, lastCall.a2) = <<>>) =>
        /\ lastCall.post = lastCall.pre
        /\ native_value[lastCall.n] = lastCall.pre

\* C7: select_input on an output in 1..4: with NO_INPUT it transmits exactly
\* one command, the output-select of port 0 for that output; with a logical
\* input L in 1..6 exactly two, the output-select of L's physical port for
\* that output and then the digital flag of that port (1 for a digital L,
\* 0 for an analog one); with any other value nothing.
C7_SelectInput ==
    (lastCall.op = "select_input" /\ lastCall.a1 \in 1..NUM_OUTPUTS) =>
        LET output == lastCall.a1
            L == lastCall.a2
        IN  IF L = NO_INPUT_SOURCE
            THEN /\ Len(lastCall.sent) = 1
                 /\ IsCmd(lastCall.sent[1], CMD_OUTPUT, output, 0)
            ELSE IF L \in 1..6
            THEN /\ Len(lastCall.sent) = 2
                 /\ RoutesAt(lastCall.sent, 1, output, L)
            ELSE lastCall.sent = <<>>

C7_Witness ==
    /\ lastCall.op = "select_input"
    /\ lastCall.a1 = 2
    /\ lastCall.a2 = 6
    /\ lastCall.sent = << Cmd(CMD_OUTPUT, <<"0", "2">>, <<"0", "3">>),
                         Cmd(CMD_DIGITAL, <<"0", "3">>, <<"0", "1">>) >>

\* C11: a mute toggle that asks for the mute state the zone already has
\* transmits nothing and leaves the zone's state (volume, pre-mute volume,
\* mute flag, input source, power state) and its previous snapshot as they
\* were.
C11_MuteToggleNoOp ==
    \A z \in Zones :
        (/\ lastOp[z].op = "mute_volume"
         /\ (lastOp[z].a1 = 1) = lastOp[z].pre.cur.is_muted) =>
            /\ lastOp[z].sent = <<>>
            /\ lastOp[z].post.cur = lastOp[z].pre.cur
            /\ lastOp[z].post.prev = lastOp[z].pre.prev

C11_Witness ==
    \E z \in Zones :
        /\ lastOp[z].op = "mute_volume"
        /\ lastOp[z].a1 = 1
        /\ lastOp[z].pre.cur.is_muted
        /\ lastOp[z].pre.cur.pre_mute_volume = 100
        /\ lastOp[z].pre.prev # <<>>
        /\ lastOp[z].post = lastOp[z].pre

\* The set_mute that has just completed directly followed a set_mute with
\* the same argument.
MuteRepeated(z) == lastOp[z].op = "set_mute" /\ lastOp[z].before # <<>>

\* C12: from any zone state, set_mute(true) applied twice in a row leaves the
\* state the first application left, and so does set_mute(false) twice; the
\* second set_mute(true) does not overwrite the pre-mute volume.
C12_SetMuteIdempotent ==
    \A z \in Zones :
        MuteRepeated(z) =>
            /\ lastOp[z].post = lastOp[z].pre
            /\ lastOp[z].post.cur.pre_mute_volume = lastOp[z].pre.cur.pre_mute_volume
            /\ lastOp[z].post.cur.is_muted = (lastOp[z].a1 = 1)

C12_Witness ==
    \E z \in Zones :
        /\ MuteRepeated(z)
        /\ lastOp[z].a1 = 1
        /\ ~lastOp[z].before[1].is_muted
        /\ lastOp[z].before[1].volume = 100
        /\ lastOp[z].before[1].pre_mute_volume = 300
        /\ lastOp[z].post.cur.pre_mute_volume = 100

OpenEndpoints == {k \in DOMAIN endpoints : endpoints[k].status = "open"}

\* C13: async_start is idempotent: a start that finds the transport open
\* leaves that socket in place, and at most one endpoint is open at any
\* time, however many starts were called.
C13_StartIdempotent ==
    /\ (lastCall.op = "start" /\ lastCall.pre # 0) => lastCall.post = lastCall.pre
    /\ Cardinality(OpenEndpoints) <= 1

\* C14: async_stop closes the socket the coordinator holds, and only that;
\* with no socket held (never opened, or stopped already) it closes nothing;
\* after it the coordinator holds no socket.
C14_StopReleases ==
    lastCall.op = "stop" =>
        /\ lastCall.post = 0
        /\ lastCall.closed = (IF lastCall.pre # 0 THEN {lastCall.pre} ELSE {})
        /\ lastCall.pre # 0 => endpoints[lastCall.pre].status = "closed"

C14_Witness ==
    /\ lastCall.op = "stop"
    /\ lastCall.pre = 0
    /\ lastCall.closed = {}
    /\ transport = 0
    /\ \E k \in DOMAIN endpoints : endpoints[k].status = "closed"

\* C15: with concurrent sends on a coordinator that starts without a socket
\* (and no start or stop), one socket is created, by a send inside the lock,
\* and every command goes out on that socket.
C15_OneSocket ==
    /\ Len(endpoints) <= 1
    /\ transport # 0 => (transport = 1 /\ IsOpen(1))
    /\ \A t \in Tasks : task[t].sent # <<>> => task[t].sock = 1
    /\ lastCall.sent # <<>> => lastCall.sock = 1

C15_Witness ==
    /\ lastCall.sent # <<>>
    /\ lastCall.sock = 1
    /\ \E t \in Tasks :
           /\ task[t].spc = "sleep"
           /\ task[t].sock = 1
           /\ Len(task[t].sent) = 2

\* C16: in any interleaving of starts, stops and sends, every sendto finds
\* an open socket (a send that finds none opens one first), and no send
\* fails, also when a stop runs during its wait.
C16_SendFindsSocket ==
    /\ \A t \in Tasks :
           /\ ~task[t].failed
           /\ task[t].spc = "sleep" => task[t].sock # 0
    /\ lastCall.op = "send_command" =>
           /\ ~lastCall.failed
           /\ Len(lastCall.sent) = 1
           /\ lastCall.sock # 0

C16_Witness ==
    /\ lastCall.op = "send_command"
    /\ lastCall.sock = 1
    /\ endpoints[lastCall.sock].status = "closed"
    /\ transport = 0
    /\ Len(lastCall.sent) = 1

\* C17: a send returns None when no datagram arrived between its
\* transmission and the end of its wait, and never the text of a datagram
\* that had arrived before its command was transmitted.
C17_FreshResponse ==
    lastCall.op = "send_command" =>
        /\ lastCall.heard = lastCall.seen => lastCall.ret = None
        /\ lastCall.ret # None => lastCall.ret > lastCall.seen

\* No operation is in flight on zone z.
Quiescent(z) == \A t \in Tasks : task[t].z # z

\* C18: in every quiescent state that concurrent turn_on, turn_off,
\* select_source, set_volume_level and mute_volume calls reach, a zone that
\* is OFF and for which an output-select has been transmitted (every
\* turn_off transmits one) had port 0 selected by the latest of them.
C18_OffMeansUnrouted ==
    \A z \in Zones :
        (Quiescent(z) /\ routed[z] # <<>> /\ mgr[z].cur.power_state = "off") =>
            ParseInt(routed[z]) = 0

C18_Witness ==
    \E z \in Zones :
        /\ Quiescent(z)
        /\ mgr[z].cur.power_state = "off"
        /\ routed[z] = <<"0", "0">>
        /\ lastOp[z].op = "mute_volume"
        /\ lastOp[z].a1 = 1
        /\ lastOp[z].pre.cur.power_state = "off"
        /\ lastOp[z].pre.cur.input_source = 5
        /\ lastOp[z].post.cur.input_source = NO_INPUT_SOURCE

\* The fixed topology of the amplifier: logical input -> <<kind, port>>.
FixedTable ==
    << <<"analog", 1>>, <<"analog", 2>>, <<"analog", 3>>, <<"analog", 4>>,
       <<"digital", 1>>, <<"digital", 3>> >>

\* C19: the input map resolves every logical input 1..6, to exactly the
\* fixed table; every port is in 1..4 and every digital entry uses port 1 or
\* 3; and a select_input of input L puts L's port and kind on the wire.
C19_InputTable ==
    /\ DOMAIN InputMap = 1..6
    /\ \A L \in 1..6 :
           /\ <<InputMap[L].kind, InputMap[L].port>> = FixedTable[L]
           /\ InputMap[L].port \in 1..4
           /\ InputMap[L].kind = "digital" => InputMap[L].port \in {1, 3}
    /\ (lastCall.op = "select_input" /\ lastCall.a2 \in 1..6) =>
           /\ Len(lastCall.sent) = 2
           /\ lastCall.sent[1].verb = CMD_OUTPUT
           /\ ParseInt(lastCall.sent[1].a2) = FixedTable[lastCall.a2][2]
           /\ IsCmd(lastCall.sent[2], CMD_DIGITAL, FixedTable[lastCall.a2][2],
                    IF FixedTable[lastCall.a2][1] = "digital" THEN 1 ELSE 0)

C19_Witness ==
    /\ lastCall.op = "select_input"
    /\ lastCall.a1 = 1
    /\ lastCall.a2 = 5
    /\ lastCall.sent = << Cmd(CMD_OUTPUT, <<"0", "1">>, <<"0", "1">>),
                         Cmd(CMD_DIGITAL, <<"0", "1">>, <<"0", "1">>) >>

\* v / 10 rounded to the nearest integer, for v in thousandths.
RoundedPercent(v) == (v + 5) \div 10

\* C20: for every volume v in [0,1], the integer set_volume puts on the wire
\* is round(v * 100) + 160, and so lies in 160..260.
C20_VolumeRounded ==
    (/\ lastCall.op = "set_volume"
     /\ lastCall.a1 \in 1..NUM_OUTPUTS
     /\ lastCall.a2 \in 0..1000) =>
        /\ Len(lastCall.sent) = 1
        /\ ParseNat(lastCall.sent[1].a2, 16) = RoundedPercent(lastCall.a2) + 160
        /\ ParseNat(lastCall.sent[1].a2, 16) \in 160..260

\* The volume (thousandths) that the wire value decodes to:
\* (value - 160) / 100.
DecodedVolume(value) == (value - 160) * 10

\* C21: for v in {0.0, 0.3, 0.5, 1.0}, the value set_volume puts on the wire
\* decodes with (value - 160) / 100 to within 0.005 of v.
C21_VolumeRoundTrip ==
    (/\ lastCall.op = "set_volume"
     /\ lastCall.a1 \in 1..NUM_OUTPUTS
     /\ lastCall.a2 \in {0, 300, 500, 1000}) =>
        /\ Len(lastCall.sent) = 1
        /\ lastCall.sent[1].verb = CMD_VOLUME
        /\ LET v == DecodedVolume(ParseNat(lastCall.sent[1].a2, 16))
           IN  v - lastCall.a2 \in -5..5

C21_Witness ==
    /\ lastCall.op = "set_volume"
    /\ lastCall.a1 = 2
    /\ lastCall.a2 = 500
    /\ lastCall.sent = <<Cmd(CMD_VOLUME, <<"0", "2">>, <<"d", "2">>)>>

\* C22: set_input_gain transmits nothing for a digital input whose port is
\* not 1 or 3, and nothing for a gain outside GAIN_MIN..GAIN_MAX; otherwise
\* it transmits exactly one input-gain command, addressed d<port> for a
\* digital input and <port> for an analog one.
C22_InputGain ==
    lastCall.op = "set_input_gain" =>
        LET port == lastCall.a1
            gain == lastCall.a2
            is_digital == lastCall.a3 = 1
        IN  IF (is_digital /\ port \notin {1, 3}) \/ gain < GAIN_MIN \/ gain > GAIN_MAX
            THEN lastCall.sent = <<>>
            ELSE /\ Len(lastCall.sent) = 1
                 /\ lastCall.sent[1].verb = CMD_INPUT_GAIN
                 /\ LET addr == lastCall.sent[1].a1
                    IN  IF is_digital
                        THEN addr[1] = "d" /\ ParseInt(Tail(addr)) = port
                        ELSE addr[1] # "d" /\ ParseInt(addr) = port

C22_Witness ==
    /\ lastCall.op = "set_input_gain"
    /\ lastCall.a1 = 3
    /\ lastCall.a3 = 1
    /\ lastCall.a2 = GAIN_MAX
    /\ Len(lastCall.sent) = 1
    /\ lastCall.sent[1].a1 = <<"d", "3">>

\* C27: set_power(p) on a zone whose power is p already changes neither
\* the current state nor the snapshot; otherwise the snapshot becomes a copy
\* of the whole current state as the call found it and only power_state
\* changes in the current state.  A new manager is (OFF, volume 0, no input,
\* unmuted) with no snapshot.
C27_SetPowerFrame ==
    /\ NewManager.prev = <<>>
    /\ NewManager.cur.power_state = "off"
    /\ NewManager.cur.volume = 0
    /\ NewManager.cur.input_source = None
    /\ ~NewManager.cur.is_muted
    /\ \A z \in Zones :
           lastOp[z].op = "set_power" =>
               LET pre == lastOp[z].pre
                   post == lastOp[z].post
                   p == IF lastOp[z].a1 = 1 THEN "on" ELSE "off"
               IN  IF pre.cur.power_state = p
                   THEN post.cur = pre.cur /\ post.prev = pre.prev
                   ELSE /\ Len(post.prev) = 1
                        /\ post.prev[1].volume = pre.cur.volume
                        /\ post.prev[1].input_source = pre.cur.input_source
                        /\ post.prev[1].is_muted = pre.cur.is_muted
                        /\ post.prev[1].pre_mute_volume = pre.cur.pre_mute_volume
                        /\ post.prev[1].power_state = pre.cur.power_state
                        /\ post.cur.power_state = p
                        /\ post.cur.volume = pre.cur.volume
                        /\ post.cur.input_source = pre.cur.input_source
                        /\ post.cur.is_muted = pre.cur.is_muted
                        /\ post.cur.pre_mute_volume = pre.cur.pre_mute_volume

C27_Witness ==
    /\ lastOp[1].op = "set_power"
    /\ lastOp[1].a1 = 0
    /\ lastOp[1].pre.cur.power_state = "on"
    /\ lastOp[1].pre.cur.is_muted
    /\ lastOp[1].pre.cur.pre_mute_volume = 300
    /\ lastOp[1].pre.prev # <<>>
    /\ lastOp[1].pre.prev[1].volume # lastOp[1].pre.cur.volume
    /\ lastOp[1].post.prev = <<lastOp[1].pre.cur>>
    /\ lastOp[1].post.cur.power_state = "off"

\* C28: set_volume(v) of the state manager sets the volume to v and leaves
\* the zone unmuted; pre_mute_volume, input_source, power_state and the
\* snapshot stay as they were.
C28_SetVolumeFrame ==
    \A z \in Zones :
        lastOp[z].op = "set_volume" =>
            /\ lastOp[z].post.cur.volume = lastOp[z].a1
            /\ ~lastOp[z].post.cur.is_muted
            /\ lastOp[z].post.cur.pre_mute_volume = lastOp[z].pre.cur.pre_mute_volume
            /\ lastOp[z].post.cur.input_source = lastOp[z].pre.cur.input_source
            /\ lastOp[z].post.cur.power_state = lastOp[z].pre.cur.power_state
            /\ lastOp[z].post.prev = lastOp[z].pre.prev

C28_Witness ==
    /\ lastOp[1].op = "set_volume"
    /\ lastOp[1].a1 = 100
    /\ lastOp[1].pre.cur.is_muted
    /\ lastOp[1].pre.cur.volume = 0
    /\ lastOp[1].pre.cur.pre_mute_volume = 300
    /\ lastOp[1].pre.prev # <<>>
    /\ lastOp[1].post.cur.volume = 100
    /\ ~lastOp[1].post.cur.is_muted

C30_SnapshotOtherSide ==
    \A z \in Zones :
        mgr[z].prev # <<>> => mgr[z].prev[1].power_state # mgr[z].cur.power_state

C30_Witness ==
    /\ mgr[1].prev # <<>>
    /\ mgr[1].prev[1].power_state = "on"
    /\ mgr[1].cur.power_state = "off"
    /\ mgr[1].prev[1].volume # mgr[1].cur.volume
    /\ mgr[1].prev[1].input_source # mgr[1].cur.input_source
    /\ lastOp[1].op = "set_mute"

\* How many times a coordinator operation calls async_send_command when its
\* arguments are valid.
SendCalls(op, input_number) ==
    IF op = "select_input" /\ input_number # NO_INPUT_SOURCE THEN 2 ELSE 1

NoRepeat(cmds) ==
    \A i, j \in 1..Len(cmds) : cmds[i] = cmds[j] => i = j

\* C23: no command is transmitted twice: a coordinator operation puts one
\* datagram on the wire for each send it makes, whether a response arrives,
\* none arrives or the send raises; so select_input transmits at most two
\* datagrams and every other operation at most one.
C23_NoRetransmission ==
    /\ \A t \in Tasks :
           task[t].op \in ClientOps =>
               /\ Len(task[t].sent) <= (IF task[t].op = "select_input" THEN 2 ELSE 1)
               /\ NoRepeat(task[t].sent)
    /\ lastCall.op \in ClientOps =>
           /\ Len(lastCall.sent) <= (IF lastCall.op = "select_input" THEN 2 ELSE 1)
           /\ NoRepeat(lastCall.sent)
           /\ IF lastCall.raised
              THEN Len(lastCall.sent) < SendCalls(lastCall.op, lastCall.a2)
              ELSE Len(lastCall.sent) = SendCalls(lastCall.op, lastCall.a2)

C23_Witness ==
    /\ lastCall.op = "select_input"
    /\ lastCall.a2 = 6
    /\ ~lastCall.raised
    /\ Len(lastCall.sent) = 2
    /\ received = 0
    /\ lastCall.ret = None

\* C24: an exception raised by the sendto or by the lazy open reaches the
\* caller (the operation stops where it is) and the lock is released: the
\* lock is held only while a task is inside the guarded section, a waiting
\* task is queued and is woken when the lock is free, and a failed open
\* leaves the coordinator without a socket.
C24_SendErrorReleasesLock ==
    /\ locked <=> \E t \in Tasks : InLockSection(t)
    /\ \A t \in Tasks : task[t].spc = "raised" => running = t
    /\ \A t \in Tasks :
           task[t].spc = "waiting" => \E i \in DOMAIN waiters : waiters[i] = t
    /\ (~locked /\ running = 0 /\ waiters # <<>>) =>
           task[Head(waiters)].spc = "waiting"
    /\ \A k \in DOMAIN endpoints : endpoints[k].status = "failed" => transport # k
    /\ (\A k \in DOMAIN endpoints : endpoints[k].status \in {"pending", "failed"}) =>
           transport = 0
    /\ \A z \in Zones :
           lastOp[z].raised => Len(lastOp[z].sent) < 2

C24_Witness ==
    /\ lastOp[1].op = "select_source"
    /\ lastOp[1].raised
    /\ lastOp[1].sent = <<>>
    /\ endpoints[1].status = "failed"
    /\ lastCall.op = "set_volume"
    /\ ~lastCall.raised
    /\ Len(lastCall.sent) = 1
    /\ lastCall.sock = 2

\* C25: while async_select_source is in flight on a zone, the zone's
\* input_source and power_state are as the call found them; they change
\* when both sends have returned, and a call that ends by a failed send
\* leaves the zone's state as it found it.
C25_SelectSourceCommit ==
    \A z \in Zones :
        /\ \A t \in Tasks :
               (task[t].op = "select_source" /\ task[t].z = z) =>
                   /\ mgr[z].cur.input_source = task[t].pre.cur.input_source
                   /\ mgr[z].cur.power_state = task[t].pre.cur.power_state
        /\ lastOp[z].op = "select_source" =>
               IF lastOp[z].raised
               THEN lastOp[z].post = lastOp[z].pre
               ELSE IF lastOp[z].a1 \in lastOp[z].labels
               THEN /\ Len(lastOp[z].sent) = 2
                    /\ lastOp[z].post.cur.input_source = lastOp[z].a1
                    /\ lastOp[z].post.cur.power_state = "on"
               ELSE lastOp[z].post = lastOp[z].pre

C25_Witness ==
    /\ lastOp[1].op = "select_source"
    /\ lastOp[1].a1 = 5
    /\ lastOp[1].raised
    /\ Len(lastOp[1].sent) = 1
    /\ lastOp[1].pre.cur.input_source = 2
    /\ lastOp[1].post = lastOp[1].pre

\* cmds is what a select_source of zone z has transmitted so far: first the
\* output-select of z, then the digital-flag command.
OrderedRoute(cmds, z) ==
    /\ Len(cmds) <= 2
    /\ Len(cmds) >= 1 => (cmds[1].verb = CMD_OUTPUT /\ ParseInt(cmds[1].a1) = z)
    /\ Len(cmds) = 2 => cmds[2].verb = CMD_DIGITAL

\* The parent's aggregate op has completed: all its child tasks are done.
AggregateDone(op) ==
    /\ lastCall.n = "parent"
    /\ lastCall.op = op
    /\ \A t \in Tasks : ~Active(t)

\* C26: in the parent's select_source, run concurrently over the children,
\* every child transmits its output-select before its digital-flag command,
\* and when the aggregate has completed every child records the selected
\* input and power_state ON, having sent both commands for it.
C26_AggregateSelectSource ==
    /\ \A t \in Tasks :
           task[t].op = "select_source" => OrderedRoute(task[t].sent, task[t].z)
    /\ AggregateDone("select_source") =>
           \A z \in Children :
               /\ Len(lastOp[z].sent) = 2
               /\ RoutesAt(lastOp[z].sent, 1, z, lastCall.a1)
               /\ mgr[z].cur.input_source = lastCall.a1
               /\ mgr[z].cur.power_state = "on"

C26_Witness ==
    /\ AggregateDone("select_source")
    /\ lastCall.a1 = 5
    /\ \A z \in Children :
           /\ lastOp[z].pre.cur.power_state = "off"
           /\ lastOp[z].pre.cur.input_source = NO_INPUT_SOURCE
           /\ mgr[z].cur.input_source = 5
           /\ mgr[z].cur.power_state = "on"

\* C31: once every call on a zone has completed, a zone that is ON with a
\* recorded input L in 1..6 had L's physical port selected by the latest
\* output-select transmitted for it.
C31_OnMeansRouted ==
    \A z \in Zones :
        (/\ Quiescent(z)
         /\ routed[z] # <<>>
         /\ mgr[z].cur.power_state = "on"
         /\ mgr[z].cur.input_source \in 1..6) =>
            ParseInt(routed[z]) = InputMap[mgr[z].cur.input_source].port

\* The value of the last volume command among cmds.
LastVolumeValue(cmds) ==
    ParseNat(cmds[Max(VolumeCmdsOf(cmds))].a2, 16)

\* C33: when the operation that has just completed on a zone transmitted a
\* volume command, then the last volume transmitted is 0 if the zone is
\* muted, and is the recorded volume if it is not.
C33_VolumeAgrees ==
    \A z \in Zones :
        (/\ Quiescent(z)
         /\ lastOp[z].op \in {"set_volume_level", "mute_volume", "turn_on", "turn_off"}
         /\ VolumeCmdsOf(lastOp[z].sent) # {}) =>
            IF mgr[z].cur.is_muted
            THEN LastVolumeValue(lastOp[z].sent) = 160
            ELSE DecodedVolume(LastVolumeValue(lastOp[z].sent)) = mgr[z].cur.volume

\* C34: every output-select that routes a zone to an input routes it to a
\* logical input that is enabled when it is sent (the label table changes
\* only between operations).
C34_RoutesEnabledInput ==
    \A z \in Zones :
        \A i \in 1..Len(lastOp[z].sent) :
            (/\ lastOp[z].op \in {"select_source", "turn_on", "turn_off"}
             /\ lastOp[z].sent[i].verb = CMD_OUTPUT
             /\ ParseInt(lastOp[z].sent[i].a2) # 0) =>
                \E L \in lastOp[z].labels : RoutesAt(lastOp[z].sent, i, z, L)

\* C35: a turn_on that has completed on a zone with an enabled input leaves
\* a logical input in 1..6 recorded for the zone.
C35_TurnOnRecordsInput ==
    \A z \in Zones :
        (lastOp[z].op = "turn_on" /\ lastOp[z].labels # {}) =>
            lastOp[z].post.cur.input_source \in 1..6

\* C36: turn_on on a zone that is ON leaves the recorded input, volume and
\* mute flag as they were, and transmits no output-select for another port
\* than the recorded input's and no volume other than the zone's.
C36_TurnOnWhileOn ==
    \A z \in Zones :
        (lastOp[z].op = "turn_on" /\ lastOp[z].pre.cur.power_state = "on") =>
            LET pre == lastOp[z].pre.cur
                post == lastOp[z].post.cur
                sent == lastOp[z].sent
            IN  /\ post.input_source = pre.input_source
                /\ post.volume = pre.volume
                /\ post.is_muted = pre.is_muted
                /\ \A i \in 1..Len(sent) :
                       /\ sent[i].verb = CMD_OUTPUT =>
                              /\ pre.input_source \in 1..6
                              /\ ParseInt(sent[i].a2) = InputMap[pre.input_source].port
                       /\ sent[i].verb = CMD_VOLUME =>
                              ParseNat(sent[i].a2, 16) =
                                  (IF pre.is_muted THEN 160 ELSE VolumeValue(pre.volume))

\* C37: a turn_off or mute_volume that ends by a send raising leaves the
\* zone's current state and snapshot as the call found them.
C37_FailedCallKeepsState ==
    \A z \in Zones :
        (lastOp[z].raised /\ lastOp[z].op \in {"turn_off", "mute_volume"}) =>
            /\ lastOp[z].post.cur = lastOp[z].pre.cur
            /\ lastOp[z].post.prev = lastOp[z].pre.prev

\* C32: when no operation is in flight, for every zone that is ON with a
\* recorded input L, the flag of the last digital-flag command transmitted
\* for L's physical port says L's kind (1 digital, 0 analog).
C32_DigitalFlagAgrees ==
    (\A t \in Tasks : ~Active(t)) =>
        \A z \in DOMAIN mgr :
            (/\ mgr[z].cur.power_state = "on"
             /\ mgr[z].cur.input_source \in 1..6
             /\ InputMap[mgr[z].cur.input_source].port \in DOMAIN digital
             /\ digital[InputMap[mgr[z].cur.input_source].port] # <<>>) =>
                ParseInt(digital[InputMap[mgr[z].cur.input_source].port]) =
                    (IF InputMap[mgr[z].cur.input_source].kind = "digital" THEN 1 ELSE 0)


\* The waiters' queue only loses its head or gains a caller at its end, and
\* a caller stops waiting only as the head of the queue.
FifoStep ==
    /\ \/ waiters' = waiters
       \/ waiters # <<>> /\ waiters' = Tail(waiters)
       \/ \E t \in Tasks : waiters' = Append(waiters, t)
    /\ \A t \in Tasks :
           (task[t].spc = "waiting" /\ task'[t].spc # "waiting") =>
               (waiters # <<>> /\ Head(waiters) = t)

\* C38: under fair scheduling a caller waiting for the transport lock
\* acquires it, the callers acquire it in the order they started to wait,
\* a holder leaves the lock section, every send call completes, and every
\* zone operation of an aggregate, and so the aggregate, terminates.
\* (P leads to ~P is written as: always eventually ~P.)
C38_SendsTerminate ==
    /\ \A t \in Tasks : (task[t].spc = "waiting") ~> InLockSection(t)
    /\ \A t \in Tasks : []<>~InLockSection(t)
    /\ \A t \in Tasks : []<>(task[t].cmds = <<>>)
    /\ \A t \in Tasks : []<>~Active(t)
    /\ []<>(\A t \in Tasks : ~Active(t))
    /\ [][FifoStep]_vars

\* A child's call waits for the lock, and the child that held it waits
\* behind it for its second command.
C38_Witness ==
    /\ lastCall.n = "parent"
    /\ Len(waiters) = 2
    /\ \A t \in Children : task[t].spc = "waiting"

====
